---- MODULE Spec2Model ----
(***************************************************************************)
(* The fabrication guard of adaptive-resume: validateTailoredResume of     *)
(* src/lib/generator.ts, run by generateTailoredResume on the object       *)
(* parsed from the rewriting oracle's response.                            *)
(*                                                                         *)
(* JSON objects are records whose DOMAIN is the set of keys present, so a  *)
(* missing key is a key outside the DOMAIN.  Identity fields (names,       *)
(* companies, dates) are strings, "" being JavaScript's falsy string.      *)
(* Skills and certifications are sequences of characters, because the      *)
(* code lower-cases, trims and rewrites them character by character; a     *)
(* character is a one-character string, or a token such as "U+2011" or     *)
(* "TAB" for a code point that is not printable ASCII.                     *)
(***************************************************************************)
EXTENDS Integers, Sequences, FiniteSets, TLC

\* generateTailoredResume
VARIABLES original, response, tailored, pc, error, invalidSkills, restored
\* getDesignSystemWithPreset
VARIABLES presetConfig, designSystem

generatorVars ==
    <<original, response, tailored, pc, error, invalidSkills, restored>>
themeVars == <<presetConfig, designSystem>>
\* exportResumeToPDF and exportResumeToDOCX
VARIABLES resumeData, theme, step, cursor, metadata, now, earlier, docx,
          qaReport, pdfBlob

exportVars ==
    <<resumeData, theme, step, cursor, metadata, now, earlier, docx, qaReport,
      pdfBlob>>
\* splitText
VARIABLES textToSplit, maxWidth, measure, splitLines, wrapPc

wrapVars == <<textToSplit, maxWidth, measure, splitLines, wrapPc>>
\* checkRateLimit and the API routes
VARIABLES rateLimitMap, clock, lastCall, windows, client, observedRoute,
          lastRequest, served
rateVars ==
    <<rateLimitMap, clock, lastCall, windows, client, observedRoute,
      lastRequest, served>>
\* checkVisualConsistency
VARIABLES qaData, visualQAReport, qaPc
qaVars == <<qaData, visualQAReport, qaPc>>
\* the PDFPreview component
VARIABLES previewData, selectedTheme, previewUrl, previewBlob, loading,
          previewError, qualityScore, effectDeps, inputChanges
previewVars ==
    <<previewData, selectedTheme, previewUrl, previewBlob, loading,
      previewError, qualityScore, effectDeps, inputChanges>>
serviceVars == <<rateVars, qaVars, previewVars>>
vars == <<generatorVars, themeVars, exportVars, wrapVars, serviceVars>>

\* the object {}
EmptyObject == [k \in {} |-> k]

\* the parts of the program that a run of one part leaves alone
GeneratorIdle ==
    /\ original = EmptyObject /\ response = EmptyObject
    /\ tailored = EmptyObject /\ pc = "idle" /\ error = "none"
    /\ invalidSkills = <<>> /\ restored = FALSE
ThemeIdle == presetConfig = EmptyObject /\ designSystem = EmptyObject
ExportIdle ==
    /\ resumeData = EmptyObject /\ theme = "professional" /\ step = "idle"
    /\ cursor = EmptyObject /\ metadata = EmptyObject /\ now = 0
    /\ earlier = EmptyObject /\ docx = <<>>
    /\ qaReport = EmptyObject /\ pdfBlob = EmptyObject
WrapIdle ==
    /\ textToSplit = <<>> /\ maxWidth = 0 /\ measure = EmptyObject
    /\ splitLines = <<>>
    /\ wrapPc = "idle"
RateIdle ==
    /\ rateLimitMap = EmptyObject /\ clock = 0 /\ lastCall = EmptyObject
    /\ windows = EmptyObject /\ client = "" /\ observedRoute = ""
    /\ lastRequest = EmptyObject /\ served = 0
QAIdle == qaData = EmptyObject /\ visualQAReport = EmptyObject /\ qaPc = "idle"
PreviewIdle ==
    /\ previewData = "null" /\ selectedTheme = "professional"
    /\ previewUrl = 0 /\ previewBlob = EmptyObject /\ loading = FALSE
    /\ previewError = "null" /\ qualityScore = 0
    /\ effectDeps = EmptyObject /\ inputChanges = 0
ServiceIdle == RateIdle /\ QAIdle /\ PreviewIdle

----
\* Bounds of the inputs.

\* longest tailored workExperience list built from the full entry pool
MaxWorkFull == 1
\* longest tailored workExperience list built from the core entry pool
MaxWork == 3
\* longest tailored education list
MaxEdu == 2
\* longest tailored skills list
MaxSkills == 2
\* longest tailored certifications list
MaxCerts == 2

----
\* JavaScript objects and strings.

Has(obj, key) == key \in DOMAIN obj

\* !obj[key] for a key that holds a string when present
Falsy(obj, key) == ~Has(obj, key) \/ obj[key] = ""

\* obj[key] = value
Put(obj, key, value) ==
    [k \in DOMAIN obj \cup {key} |-> IF k = key THEN value ELSE obj[k]]

\* obj[key] === value, for a string value
Is(obj, key, value) == Has(obj, key) /\ obj[key] = value

Min(S) == CHOOSE x \in S : \A y \in S : x <= y

LowerOf ==
    [A |-> "a", B |-> "b", C |-> "c", D |-> "d", E |-> "e", F |-> "f",
     G |-> "g", H |-> "h", I |-> "i", J |-> "j", K |-> "k", L |-> "l",
     M |-> "m", N |-> "n", O |-> "o", P |-> "p", Q |-> "q", R |-> "r",
     S |-> "s", T |-> "t", U |-> "u", V |-> "v", W |-> "w", X |-> "x",
     Y |-> "y", Z |-> "z"]

\* String.prototype.toLowerCase
ToLowerCase(s) ==
    [i \in 1..Len(s) |-> IF s[i] \in DOMAIN LowerOf THEN LowerOf[s[i]] ELSE s[i]]

\* the characters \s matches and trim() strips
WhiteSpace == {" ", "TAB", "LF", "CR", "U+00A0"}

RECURSIVE TrimStart(_)
TrimStart(s) ==
    IF s # <<>> /\ Head(s) \in WhiteSpace THEN TrimStart(Tail(s)) ELSE s

RECURSIVE TrimEnd(_)
TrimEnd(s) ==
    IF s # <<>> /\ s[Len(s)] \in WhiteSpace
    THEN TrimEnd(SubSeq(s, 1, Len(s) - 1))
    ELSE s

\* String.prototype.trim
Trim(s) == TrimEnd(TrimStart(s))

\* .replace(/\s+/g, " ")
RECURSIVE CollapseWhiteSpace(_)
CollapseWhiteSpace(s) ==
    IF s = <<>> THEN <<>>
    ELSE IF Head(s) \in WhiteSpace
         THEN <<" ">> \o CollapseWhiteSpace(TrimStart(s))
         ELSE <<Head(s)>> \o CollapseWhiteSpace(Tail(s))

\* the character class [\u2010-\u2015\u2212\u002D\u00AD]
DashChars ==
    {"-", "U+2010", "U+2011", "U+2012", "U+2013", "U+2014", "U+2015",
     "U+2212", "U+00AD"}

\* .replace(/[\u2010-\u2015\u2212\u002D\u00AD]/g, "-")
NormalizeDashes(s) ==
    [i \in 1..Len(s) |-> IF s[i] \in DashChars THEN "-" ELSE s[i]]

EndsWith(s, suffix) ==
    /\ Len(suffix) <= Len(s)
    /\ SubSeq(s, Len(s) - Len(suffix) + 1, Len(s)) = suffix

\* .replace(/<suffix>$/, <with>)
ReplaceSuffix(s, suffix, with) ==
    IF EndsWith(s, suffix)
    THEN SubSeq(s, 1, Len(s) - Len(suffix)) \o with
    ELSE s

\* normalizeSkill: the chain of replacements in the order of the code
normalizeSkill(skill) ==
    LET lowered   == ToLowerCase(skill)
        trimmed   == Trim(lowered)
        collapsed == CollapseWhiteSpace(trimmed)
        dashed    == NormalizeDashes(collapsed)
        singular  == ReplaceSuffix(dashed, <<"s">>, <<>>)
        api       == ReplaceSuffix(singular, <<"a", "p", "i">>, <<"a", "p", "i">>)
    IN  ReplaceSuffix(api, <<"a", "p", "i", "s">>, <<"a", "p", "i">>)

\* String.prototype.includes
Includes(s, part) ==
    \E i \in 0..(Len(s) - Len(part)) : SubSeq(s, i + 1, i + Len(part)) = part

\* RemoveDashes that removes spaces as well
RemoveDashesAndSpaces(s) == SelectSeq(s, LAMBDA c : c \notin {"-", " "})

\* .replace(/-/g, "")
RemoveDashes(s) == SelectSeq(s, LAMBDA c : c # "-")

----
\* Skill and certification strings of the inputs.

\* 'Machine Learning'
MachineLearning ==
    <<"M","a","c","h","i","n","e"," ","L","e","a","r","n","i","n","g">>
\* 'Machine-Learning'
MachineHyphenLearning ==
    <<"M","a","c","h","i","n","e","-","L","e","a","r","n","i","n","g">>
\* 'JavaScript'
JavaScript ==
    <<"J","a","v","a","S","c","r","i","p","t">>
\* 'Java'
Java ==
    <<"J","a","v","a">>
\* 'REST API'
RestApi ==
    <<"R","E","S","T"," ","A","P","I">>
\* 'REST APIs'
RestApis ==
    <<"R","E","S","T"," ","A","P","I","s">>
\* 'Scikit-Learn'
ScikitLearn ==
    <<"S","c","i","k","i","t","-","L","e","a","r","n">>
\* 'Scikit\u2011Learn'
ScikitNbHyphenLearn ==
    <<"S","c","i","k","i","t","U+2011","L","e","a","r","n">>
\* 'ScikitLearn'
ScikitLearnJoined ==
    <<"S","c","i","k","i","t","L","e","a","r","n">>
\* '  python\t '
PythonPadded ==
    <<" "," ","p","y","t","h","o","n","TAB"," ">>
\* 'Python'
Python ==
    <<"P","y","t","h","o","n">>
\* 'PyTorch'
PyTorch ==
    <<"P","y","T","o","r","c","h">>
\* 'APISS'
Apiss ==
    <<"A","P","I","S","S">>
\* 'AWS Certified Solutions Architect (2022)'
CertArchitect ==
    <<"A","W","S"," ","C","e","r","t","i","f","i","e","d"," ","S","o","l",
      "u","t","i","o","n","s"," ","A","r","c","h","i","t","e","c","t"," ",
      "(","2","0","2","2",")">>
\* ' aws certified solutions architect (2022) '
CertArchitectLoose ==
    <<" ","a","w","s"," ","c","e","r","t","i","f","i","e","d"," ","s","o",
      "l","u","t","i","o","n","s"," ","a","r","c","h","i","t","e","c","t",
      " ","(","2","0","2","2",")"," ">>
\* 'AWS Certified Developer'
CertDeveloper ==
    <<"A","W","S"," ","C","e","r","t","i","f","i","e","d"," ","D","e","v",
      "e","l","o","p","e","r">>
\* 'AWS Certified Solutions Architect'
CertArchitectNoYear ==
    <<"A","W","S"," ","C","e","r","t","i","f","i","e","d"," ","S","o","l",
      "u","t","i","o","n","s"," ","A","r","c","h","i","t","e","c","t">>

----
\* validateTailoredResume, one operator per block of the function.  Each
\* returns the tailored resume as the block leaves it and the message of
\* the Error it throws, NoError when it throws none.

NoError == "none"

\* JSON.parse returned something that is not an object (null)
NotAnObject == [isNull |-> TRUE]

Result(t, err) == [t |-> t, err |-> err]

\* lines 266-287: personalInfo is copied or filled from the original
FillPersonalInfo(t, o) ==
    LET opi == o.personalInfo
        p0 == IF Has(t, "personalInfo") THEN t.personalInfo ELSE opi
        p1 == IF Falsy(p0, "name") THEN Put(p0, "name", opi.name) ELSE p0
        p2 == IF Falsy(p1, "email") THEN Put(p1, "email", opi.email) ELSE p1
        p3 == IF Falsy(p2, "phone") /\ ~Falsy(opi, "phone")
              THEN Put(p2, "phone", opi.phone) ELSE p2
        p4 == IF Falsy(p3, "location") /\ ~Falsy(opi, "location")
              THEN Put(p3, "location", opi.location) ELSE p3
        p5 == IF Falsy(p4, "linkedIn") /\ ~Falsy(opi, "linkedIn")
              THEN Put(p4, "linkedIn", opi.linkedIn) ELSE p4
    IN  Put(t, "personalInfo", p5)

\* CheckPersonalInfo without the comparison of the email
CheckPersonalInfoNameOnly(t, o) ==
    IF t.personalInfo.name # o.personalInfo.name
    THEN "Validation failed: Name cannot be changed"
    ELSE NoError

\* lines 289-295: name and email must be the original's
CheckPersonalInfo(t, o) ==
    IF t.personalInfo.name # o.personalInfo.name
    THEN "Validation failed: Name cannot be changed"
    ELSE IF t.personalInfo.email # o.personalInfo.email
    THEN "Validation failed: Email cannot be changed"
    ELSE NoError

\* lines 261-295
validatePersonalInfo(t, o) ==
    IF t = NotAnObject
    THEN Result(t, "Invalid tailored resume: not an object")
    ELSE LET filled == FillPersonalInfo(t, o)
         IN  Result(filled, CheckPersonalInfo(filled, o))

\* lines 310-314: the index of the original entry that find() || find()
\* returns, 0 when both return undefined
findOriginalExp(exp, o) ==
    LET owe == o.workExperience
        byBoth == {i \in DOMAIN owe : /\ Is(exp, "company", owe[i].company)
                                      /\ Is(exp, "startDate", owe[i].startDate)}
        byCompany == {i \in DOMAIN owe : Is(exp, "company", owe[i].company)}
    IN  IF byBoth # {} THEN Min(byBoth)
        ELSE IF byCompany # {} THEN Min(byCompany)
        ELSE 0

\* lines 322-339: missing fields of one entry are filled from originalExp
FillExp(exp, originalExp) ==
    LET e1 == IF Falsy(exp, "company")
              THEN Put(exp, "company", originalExp.company) ELSE exp
        e2 == IF Falsy(e1, "title")
              THEN Put(e1, "title", originalExp.title) ELSE e1
        e3 == IF Falsy(e2, "startDate")
              THEN Put(e2, "startDate", originalExp.startDate) ELSE e2
        e4 == IF Falsy(e3, "endDate")
              THEN Put(e3, "endDate", originalExp.endDate) ELSE e3
    IN  IF ~Has(e4, "bullets")
        THEN Put(e4, "bullets", originalExp.bullets) ELSE e4

\* CheckExpDates without the comparison of the end date
CheckExpDatesStartOnly(exp, originalExp) ==
    IF exp.startDate # originalExp.startDate
    THEN "Validation failed: Start date cannot be changed"
    ELSE NoError

\* lines 341-347: the dates must be the original's
CheckExpDates(exp, originalExp) ==
    IF exp.startDate # originalExp.startDate
    THEN "Validation failed: Start date cannot be changed"
    ELSE IF exp.endDate # originalExp.endDate
    THEN "Validation failed: End date cannot be changed"
    ELSE NoError

\* lines 308-348: the body of the forEach callback for one entry
validateExp(exp, o) ==
    LET idx == findOriginalExp(exp, o)
    IN  IF idx = 0
        THEN Result(exp, "Validation failed: Work experience not found in original resume")
        ELSE LET filled == FillExp(exp, o.workExperience[idx])
             IN  Result(filled, CheckExpDates(filled, o.workExperience[idx]))

\* lines 308-348: forEach from entry i on; a throw leaves the entries
\* after the throwing one untouched
RECURSIVE forEachExp(_, _, _)
forEachExp(exps, i, o) ==
    IF i > Len(exps) THEN Result(exps, NoError)
    ELSE LET r == validateExp(exps[i], o)
             done == [exps EXCEPT ![i] = r.t]
         IN  IF r.err # NoError THEN Result(done, r.err)
             ELSE forEachExp(done, i + 1, o)

\* validateWorkExperience without the comparison of the lengths
validateWorkExperienceAnyLength(t, o) ==
    IF ~Has(t, "workExperience")
    THEN Result(t, "Invalid tailored resume: workExperience must be an array")
    ELSE LET r == forEachExp(t.workExperience, 1, o)
         IN  Result(Put(t, "workExperience", r.t), r.err)

\* lines 297-348
validateWorkExperience(t, o) ==
    IF ~Has(t, "workExperience")
    THEN Result(t, "Invalid tailored resume: workExperience must be an array")
    ELSE IF Len(t.workExperience) > Len(o.workExperience)
    THEN Result(t, "Validation failed: Cannot add work experiences not in original resume")
    ELSE LET r == forEachExp(t.workExperience, 1, o)
         IN  Result(Put(t, "workExperience", r.t), r.err)

\* findOriginalEdu without the entry at the same index
findOriginalEduByInstitution(edu, index, o) ==
    LET oed == o.education
        byInstitution == {i \in DOMAIN oed : Is(edu, "institution", oed[i].institution)}
    IN  IF byInstitution # {} THEN Min(byInstitution) ELSE 0

\* lines 361-363: the index of the original entry that
\* find() || education[index] returns, 0 when it is undefined
findOriginalEdu(edu, index, o) ==
    LET oed == o.education
        byInstitution == {i \in DOMAIN oed : Is(edu, "institution", oed[i].institution)}
    IN  IF byInstitution # {} THEN Min(byInstitution)
        ELSE IF index \in DOMAIN oed THEN index
        ELSE 0

\* lines 372-395: degree, field and graduationDate are filled from
\* originalEdu, or with a placeholder when there is none
FillEdu(edu, idx, o) ==
    LET d1 == IF Falsy(edu, "degree")
              THEN Put(edu, "degree",
                       IF idx # 0 THEN o.education[idx].degree ELSE "Degree")
              ELSE edu
        d2 == IF Falsy(d1, "field")
              THEN Put(d1, "field",
                       IF idx # 0 THEN o.education[idx].field ELSE "General Studies")
              ELSE d1
    IN  IF Falsy(d2, "graduationDate")
        THEN Put(d2, "graduationDate",
                 IF idx # 0 THEN o.education[idx].graduationDate ELSE "N/A")
        ELSE d2

\* lines 359-396: the body of the forEach callback for the entry at index
validateEdu(edu, index, o) ==
    LET idx == findOriginalEdu(edu, index, o)
    IN  IF Falsy(edu, "institution")
        THEN IF idx # 0
             THEN Result(FillEdu(Put(edu, "institution", o.education[idx].institution),
                                 idx, o), NoError)
             ELSE Result(edu, "Invalid tailored resume: education missing institution")
        ELSE Result(FillEdu(edu, idx, o), NoError)

RECURSIVE forEachEdu(_, _, _)
forEachEdu(edus, i, o) ==
    IF i > Len(edus) THEN Result(edus, NoError)
    ELSE LET r == validateEdu(edus[i], i, o)
             done == [edus EXCEPT ![i] = r.t]
         IN  IF r.err # NoError THEN Result(done, r.err)
             ELSE forEachEdu(done, i + 1, o)

\* lines 350-396
validateEducation(t, o) ==
    IF ~Has(t, "education")
    THEN Result(t, "Invalid tailored resume: education must be an array")
    ELSE IF Len(t.education) > Len(o.education)
    THEN Result(t, "Validation failed: Cannot add education not in original resume")
    ELSE LET r == forEachEdu(t.education, 1, o)
         IN  Result(Put(t, "education", r.t), r.err)

Range(s) == {s[i] : i \in DOMAIN s}

\* line 418
originalSkillsNormalized(o) ==
    [i \in DOMAIN o.skills |-> normalizeSkill(o.skills[i])]

\* lines 432-457: the callback of some() for one original skill
isVariationOf(skillNormalized, origNormalized) ==
    \/ skillNormalized = origNormalized
    \/ Includes(skillNormalized, origNormalized)
    \/ Includes(origNormalized, skillNormalized)
    \/ /\ RemoveDashes(skillNormalized) = RemoveDashes(origNormalized)
       /\ Len(RemoveDashes(skillNormalized)) > 0

\* lines 423-462: the skill is not pushed to invalidSkills
isAcceptedSkill(skill, o) ==
    \/ normalizeSkill(skill) \in Range(originalSkillsNormalized(o))
    \/ \E i \in DOMAIN o.skills :
           isVariationOf(normalizeSkill(skill), normalizeSkill(o.skills[i]))

\* validateSkills whose filter keeps the invalid skills instead of
\* removing them
validateSkillsKeepInvalid(t, o) ==
    LET skills == IF Has(t, "skills") THEN t.skills ELSE o.skills
        invalid == SelectSeq(skills, LAMBDA s : ~isAcceptedSkill(s, o))
        kept == SelectSeq(skills, LAMBDA s : s \in Range(invalid))
        restore == Len(invalid) > 0 /\ Len(kept) = 0
        out == IF Len(invalid) = 0 THEN skills
               ELSE IF restore THEN o.skills
               ELSE kept
    IN  [t |-> Put(t, "skills", out), err |-> NoError,
         invalid |-> invalid, restored |-> restore]

\* validateSkills that throws on an invalid skill, as the certification
\* block does
validateSkillsStrict(t, o) ==
    LET skills == IF Has(t, "skills") THEN t.skills ELSE o.skills
        invalid == SelectSeq(skills, LAMBDA s : ~isAcceptedSkill(s, o))
    IN  [t |-> Put(t, "skills", skills),
         err |-> IF Len(invalid) > 0
                 THEN "Validation failed: Skill not found in original resume"
                 ELSE NoError,
         invalid |-> invalid, restored |-> FALSE]

\* lines 398-484; invalid is invalidSkills, restored tells that the
\* "Restoring original skills list" warning was logged
validateSkills(t, o) ==
    LET skills == IF Has(t, "skills") THEN t.skills ELSE o.skills
        invalid == SelectSeq(skills, LAMBDA s : ~isAcceptedSkill(s, o))
        kept == SelectSeq(skills, LAMBDA s : s \notin Range(invalid))
        restore == Len(invalid) > 0 /\ Len(kept) = 0
        out == IF Len(invalid) = 0 THEN skills
               ELSE IF restore THEN o.skills
               ELSE kept
    IN  [t |-> Put(t, "skills", out), err |-> NoError,
         invalid |-> invalid, restored |-> restore]

\* line 493 and line 495
certLower(cert) == Trim(ToLowerCase(cert))

\* validateCertifications that checks only against an original that has
\* certifications
validateCertificationsIfOriginalHas(t, o) ==
    IF ~Has(t, "certifications") \/ ~Has(o, "certifications")
    THEN Result(t, NoError)
    ELSE IF \E i \in DOMAIN t.certifications :
                certLower(t.certifications[i]) \notin
                    {certLower(c) : c \in Range(o.certifications)}
    THEN Result(t, "Validation failed: Certification not found in original resume")
    ELSE Result(t, NoError)

\* lines 486-502
validateCertifications(t, o) ==
    IF ~Has(t, "certifications") THEN Result(t, NoError)
    ELSE LET originalCerts == IF Has(o, "certifications")
                              THEN o.certifications ELSE <<>>
             originalCertsLower == {certLower(c) : c \in Range(originalCerts)}
         IN  IF \E i \in DOMAIN t.certifications :
                    certLower(t.certifications[i]) \notin originalCertsLower
             THEN Result(t, "Validation failed: Certification not found in original resume")
             ELSE Result(t, NoError)

----
\* The inputs: pairs of an original resume and the object parsed from the
\* oracle's response.

\* the object with the keys of r that are in keys
Restrict(r, keys) == [k \in keys |-> r[k]]

\* the sequences over S of length at most n
SeqsUpTo(S, n) == UNION {[1..m -> S] : m \in 0..n}

\* the sets of keys that leave out at most one key
AllButOne(keys) == {keys \ miss : miss \in {{}} \cup {{k} : k \in keys}}

Job1 ==
    [company |-> "Acme", title |-> "Engineer", startDate |-> "2019-01",
     endDate |-> "2021-05", bullets |-> <<"Built the billing service">>]

Job2 ==
    [company |-> "Acme", title |-> "Lead Engineer", startDate |-> "2021-06",
     endDate |-> "Present", bullets |-> <<"Led a team of four">>]

Job3 ==
    [company |-> "Globex", title |-> "Architect", startDate |-> "2021-06",
     endDate |-> "Present", bullets |-> <<"Designed the data platform">>]

Edu1 ==
    [institution |-> "MIT", degree |-> "BSc", field |-> "Mathematics",
     graduationDate |-> "2015"]

Edu2 ==
    [institution |-> "Stanford", degree |-> "MSc", field |-> "Computer Science",
     graduationDate |-> "2017"]

BaseOriginal ==
    [personalInfo |-> [name |-> "Ada Lovelace", email |-> "ada@example.com",
                       phone |-> "555-0100", location |-> "London"],
     summary |-> "Engineer with ten years of experience",
     workExperience |-> <<Job1, Job2>>,
     education |-> <<Edu1>>,
     skills |-> <<Python, MachineLearning>>,
     certifications |-> <<CertArchitect>>]

\* a rewriting of BaseOriginal that validation accepts
BaseTailored ==
    [personalInfo |-> [name |-> "Ada Lovelace", email |-> "ada@example.com"],
     summary |-> "Engineer experienced in machine learning",
     workExperience |-> <<[Job2 EXCEPT !.bullets = <<"Led four engineers">>], Job1>>,
     education |-> <<Edu1>>,
     skills |-> <<MachineLearning, Python>>,
     certifications |-> <<CertArchitect>>]

\* An optional value is the set of at most one value: Absent for a key
\* that is missing, {v} for a key that holds v.
Absent == {}

Present(S) == {{v} : v \in S}

With(obj, key, opt) ==
    IF opt = Absent THEN Restrict(obj, DOMAIN obj \ {key})
    ELSE Put(obj, key, CHOOSE v \in opt : TRUE)

\* the pair of BaseOriginal and BaseTailored with one key of each replaced

Case(key, originalValue, tailoredValue) ==
    <<With(BaseOriginal, key, originalValue), With(BaseTailored, key, tailoredValue)>>

PersonalInfoKeys == {"name", "email", "phone", "location", "linkedIn"}

OriginalPersonalInfos ==
    Present({BaseOriginal.personalInfo,
             [name |-> "Ada Lovelace", email |-> "ada@example.com",
              linkedIn |-> "linkedin.com/in/ada"]})

TailoredPersonalInfos ==
    {Absent} \cup
    {{Restrict(p, keys)} :
        p \in [name : {"", "Ada Lovelace", "Eve Moriarty"},
               email : {"", "ada@example.com", "eve@example.com"},
               phone : {"", "555-0100", "555-0199"},
               location : {"Paris"},
               linkedIn : {"linkedin.com/in/ada"}],
        keys \in SUBSET PersonalInfoKeys}

PersonalInfoCases ==
    {Case("personalInfo", op, tp) :
        op \in OriginalPersonalInfos, tp \in TailoredPersonalInfos}

WorkKeys == {"company", "title", "startDate", "endDate", "bullets"}

\* entries with any dates and at most one of company, startDate and
\* endDate missing, one entry for each other way to differ, and the
\* copies of an original entry that lack one key
WorkEntriesFull ==
    {Restrict(e, keys) :
        e \in [company : {"Acme"},
               title : {"Staff Engineer"},
               startDate : {"", "2019-01", "2021-06", "2022-01"},
               endDate : {"2021-05", "Present", "2023-01"},
               bullets : {<<"Rewrote the billing service">>}],
        keys \in {WorkKeys, WorkKeys \ {"company"}, WorkKeys \ {"startDate"},
                  WorkKeys \ {"endDate"}}}
    \cup {[Job1 EXCEPT !.company = "Initech"], [Job1 EXCEPT !.title = ""]}
    \cup {Restrict(e, WorkKeys \ {k}) : e \in {Job1, Job2}, k \in WorkKeys}

\* copies of original entries, and one fabricated or tampered entry of
\* each kind
WorkEntriesCore ==
    {Job1, Job2,
     Restrict(Job1, {"company", "bullets"}),
     [Job2 EXCEPT !.endDate = "2023-01"],
     [Job3 EXCEPT !.company = "Initech"]}

WorkCases ==
    {Case("workExperience", ow, tw) :
        ow \in Present({<<Job1, Job2>>, <<Job1, Job3>>}),
        tw \in Present(SeqsUpTo(WorkEntriesFull, MaxWorkFull))}
    \cup
    {Case("workExperience", ow, tw) :
        ow \in Present({<<>>, <<Job1, Job2>>, <<Job3, Job1>>}),
        tw \in {Absent} \cup Present(SeqsUpTo(WorkEntriesCore, MaxWork))}

EduKeys == {"institution", "degree", "field", "graduationDate"}

EduEntries ==
    {[Edu1 EXCEPT !.institution = i] : i \in {"", "MIT", "Stanford", "Harvard"}}
    \cup {Restrict(Edu1, keys) : keys \in AllButOne(EduKeys)}
    \cup {Restrict(Edu1, {}), Restrict([Edu2 EXCEPT !.institution = "Harvard"], {"institution"})}

EduCases ==
    {Case("education", oe, te) :
        oe \in Present({<<>>, <<Edu1>>, <<Edu1, Edu2>>}),
        te \in {Absent} \cup Present(SeqsUpTo(EduEntries, MaxEdu))}

\* "" is the empty skill
SkillPool ==
    {<<>>, MachineLearning, MachineHyphenLearning, JavaScript, Java,
     RestApis, ScikitNbHyphenLearn, ScikitLearnJoined, PythonPadded,
     PyTorch, Apiss}

OriginalSkillLists ==
    {<<>>, <<MachineLearning>>, <<JavaScript, RestApi>>,
     <<ScikitLearn, Python, RestApis>>}

SkillCases ==
    {Case("skills", os, ts) :
        os \in Present(OriginalSkillLists),
        ts \in {Absent} \cup Present(SeqsUpTo(SkillPool, MaxSkills))}

CertPool == {CertArchitect, CertArchitectLoose, CertDeveloper, CertArchitectNoYear}

CertCases ==
    {Case("certifications", oc, tc) :
        oc \in {Absent} \cup
               Present({<<>>, <<CertArchitect>>, <<CertArchitectLoose, CertDeveloper>>}),
        tc \in {Absent} \cup Present(SeqsUpTo(CertPool, MaxCerts))}

\* several keys replaced at once
MixedCases ==
    {<<BaseOriginal,
       With(With(With(With(With(BaseTailored,
           "personalInfo", p), "workExperience", w), "education", e),
           "skills", s), "certifications", c)>> :
        p \in Present({BaseTailored.personalInfo,
                        [name |-> "Eve Moriarty", email |-> "ada@example.com"]}),
        w \in Present({<<Job1>>, <<Job1, Job2, Job1>>,
                        <<[Job1 EXCEPT !.startDate = "2018-01"]>>}),
        e \in Present({<<Edu1>>, <<Edu2>>, <<Edu1, Edu1>>}),
        s \in {Absent} \cup Present({<<>>, <<PyTorch>>, <<Java, Python>>}),
        c \in {Absent} \cup Present({<<CertArchitect>>, <<CertDeveloper>>})}

\* validateTailoredResume is called on the pair c
Call(c) == original = c[1] /\ response = c[2] /\ tailored = c[2]

----
\* generateTailoredResume from the call of validateTailoredResume on;
\* pc is the block of validateTailoredResume that runs next, "returned"
\* once generateTailoredResume has returned the tailored resume, "threw"
\* once the Error of a block has left it.

Init ==
    /\ \/ Call(<<BaseOriginal, NotAnObject>>)
       \/ \E c \in PersonalInfoCases : Call(c)
       \/ \E c \in WorkCases : Call(c)
       \/ \E c \in EduCases : Call(c)
       \/ \E c \in SkillCases : Call(c)
       \/ \E c \in CertCases : Call(c)
       \/ \E c \in MixedCases : Call(c)
    /\ pc = "personalInfo"
    /\ error = NoError
    /\ invalidSkills = <<>>
    /\ restored = FALSE
    /\ ThemeIdle
    /\ ExportIdle
    /\ WrapIdle
    /\ ServiceIdle

Leave(r, next) ==
    /\ tailored' = r.t
    /\ error' = r.err
    /\ pc' = IF r.err = NoError THEN next ELSE "threw"

PersonalInfo ==
    /\ pc = "personalInfo"
    /\ Leave(validatePersonalInfo(tailored, original), "workExperience")
    /\ UNCHANGED <<original, response, invalidSkills, restored>>
    /\ UNCHANGED <<themeVars, exportVars, wrapVars, serviceVars>>

WorkExperience ==
    /\ pc = "workExperience"
    /\ Leave(validateWorkExperience(tailored, original), "education")
    /\ UNCHANGED <<original, response, invalidSkills, restored>>
    /\ UNCHANGED <<themeVars, exportVars, wrapVars, serviceVars>>

Education ==
    /\ pc = "education"
    /\ Leave(validateEducation(tailored, original), "skills")
    /\ UNCHANGED <<original, response, invalidSkills, restored>>
    /\ UNCHANGED <<themeVars, exportVars, wrapVars, serviceVars>>

\* Skills working on the skills array of the original itself
SkillsSharingOriginal ==
    /\ pc = "skills"
    /\ LET r == validateSkills(tailored, original)
       IN  /\ Leave(r, "certifications")
           /\ invalidSkills' = r.invalid
           /\ restored' = r.restored
           /\ original' = [original EXCEPT !.skills = r.t.skills]
    /\ UNCHANGED response
    /\ UNCHANGED <<themeVars, exportVars, wrapVars, serviceVars>>

Skills ==
    /\ pc = "skills"
    /\ LET r == validateSkills(tailored, original)
       IN  /\ Leave(r, "certifications")
           /\ invalidSkills' = r.invalid
           /\ restored' = r.restored
    /\ UNCHANGED <<original, response>>
    /\ UNCHANGED <<themeVars, exportVars, wrapVars, serviceVars>>

Certifications ==
    /\ pc = "certifications"
    /\ Leave(validateCertifications(tailored, original), "returned")
    /\ UNCHANGED <<original, response, invalidSkills, restored>>
    /\ UNCHANGED <<themeVars, exportVars, wrapVars, serviceVars>>

Next ==
    \/ PersonalInfo
    \/ WorkExperience
    \/ Education
    \/ Skills
    \/ Certifications

Spec == Init /\ [][Next]_vars

Accepted == pc = "returned"

TypeOK ==
    /\ pc \in {"idle", "personalInfo", "workExperience", "education",
               "skills", "certifications", "returned", "threw"}
    /\ (pc = "threw") = (error # NoError)

----
\* The properties of the fabrication guard.

\* the blocks of validateTailoredResume that have run without throwing
Past(block) ==
    LET order == <<"personalInfo", "workExperience", "education", "skills",
                   "certifications", "returned">>
        at(b) == CHOOSE i \in DOMAIN order : order[i] = b
    IN  pc # "threw" /\ at(pc) > at(block)

PersonalInfoErrors ==
    {"Invalid tailored resume: not an object",
     "Validation failed: Name cannot be changed",
     "Validation failed: Email cannot be changed"}

WorkExperienceErrors ==
    {"Invalid tailored resume: workExperience must be an array",
     "Validation failed: Cannot add work experiences not in original resume",
     "Validation failed: Work experience not found in original resume",
     "Validation failed: Start date cannot be changed",
     "Validation failed: End date cannot be changed"}

EducationErrors ==
    {"Invalid tailored resume: education must be an array",
     "Validation failed: Cannot add education not in original resume",
     "Invalid tailored resume: education missing institution"}

CertificationErrors ==
    {"Validation failed: Certification not found in original resume"}

\* validateTailoredResume has left the block, by running past it or by
\* throwing in it or in a later block
Left(block) ==
    \/ Past(block)
    \/ /\ pc = "threw"
       /\ error \in
            CASE block = "personalInfo" ->
                    PersonalInfoErrors \cup WorkExperienceErrors
                    \cup EducationErrors \cup CertificationErrors
              [] block = "workExperience" ->
                    WorkExperienceErrors \cup EducationErrors
                    \cup CertificationErrors
              [] block = "education" -> EducationErrors \cup CertificationErrors
              [] block = "skills" -> CertificationErrors
              [] block = "certifications" -> CertificationErrors

\* the key holds a non-empty string other than value
Changed(obj, key, value) == ~Falsy(obj, key) /\ obj[key] # value

\* C1: an accepted tailored resume has the name and the email of the
\* original; a response whose name or email is a non-empty string other
\* than the original's makes validation throw.
C1_IdentityLocked ==
    /\ Accepted =>
          /\ tailored.personalInfo.name = original.personalInfo.name
          /\ tailored.personalInfo.email = original.personalInfo.email
    /\ /\ pc # "personalInfo"
       /\ Has(response, "personalInfo")
       /\ \/ Changed(response.personalInfo, "name", original.personalInfo.name)
          \/ Changed(response.personalInfo, "email", original.personalInfo.email)
       => pc = "threw" /\ error \in PersonalInfoErrors

\* C1 witness: a response without a name, and with a telephone number of
\* its own, was accepted
C1_Witness ==
    /\ Accepted
    /\ Has(response, "personalInfo")
    /\ ~Has(response.personalInfo, "name")
    /\ Is(response.personalInfo, "phone", "555-0199")

\* the original entry the claim names for a tailored entry: the first one
\* with its company and startDate, else the first one with its company
C2_Matched(exp, owe) ==
    LET both == {j \in DOMAIN owe : /\ Is(exp, "company", owe[j].company)
                                    /\ Is(exp, "startDate", owe[j].startDate)}
        company == {j \in DOMAIN owe : Is(exp, "company", owe[j].company)}
    IN  IF both # {} THEN {Min(both)}
        ELSE IF company # {} THEN {Min(company)}
        ELSE {}

\* C2: every work entry of an accepted tailored resume has the company,
\* startDate and endDate of the one original entry matched for it (by
\* company and startDate, else the first with its company); a response
\* entry whose company matches no original entry, or whose startDate or
\* endDate is present and differs from the matched entry's, makes
\* validation throw.
C2_WorkEntriesLocked ==
    /\ Accepted =>
          \A i \in DOMAIN tailored.workExperience :
              \E j \in C2_Matched(response.workExperience[i], original.workExperience) :
                  /\ tailored.workExperience[i].company = original.workExperience[j].company
                  /\ tailored.workExperience[i].startDate = original.workExperience[j].startDate
                  /\ tailored.workExperience[i].endDate = original.workExperience[j].endDate
    /\ /\ Left("workExperience")
       /\ Has(response, "workExperience")
       /\ \E i \in DOMAIN response.workExperience :
              LET exp == response.workExperience[i]
                  matched == C2_Matched(exp, original.workExperience)
              IN  \/ matched = {}
                  \/ \E j \in matched :
                         \/ Changed(exp, "startDate", original.workExperience[j].startDate)
                         \/ Changed(exp, "endDate", original.workExperience[j].endDate)
       => pc = "threw" /\ error \in WorkExperienceErrors

\* C2 witness: an entry without a startDate was matched by its company
\* alone and accepted, in a resume with two jobs at that company
C2_Witness ==
    /\ Accepted
    /\ \E i \in DOMAIN response.workExperience :
          /\ ~Has(response.workExperience[i], "startDate")
          /\ Is(response.workExperience[i], "endDate", "2021-05")
    /\ original.workExperience = <<Job1, Job2>>

\* C3: every education entry of an accepted tailored resume has the
\* institution of some original education entry; a response entry whose
\* institution is in no original entry makes validation throw.
C3_EducationKnown ==
    LET institutions ==
            {original.education[j].institution : j \in DOMAIN original.education}
    IN  /\ Accepted =>
              \A i \in DOMAIN tailored.education :
                  tailored.education[i].institution \in institutions
        /\ /\ Left("education")
           /\ Has(response, "education")
           /\ \E i \in DOMAIN response.education :
                  /\ ~Falsy(response.education[i], "institution")
                  /\ response.education[i].institution \notin institutions
           => pc = "threw"

\* C4: every skill of an accepted tailored resume has the normalized form
\* of some original skill.
C4_SkillsNormalizedSubset ==
    Accepted =>
        \A i \in DOMAIN tailored.skills :
            \E j \in DOMAIN original.skills :
                normalizeSkill(tailored.skills[i]) = normalizeSkill(original.skills[j])

\* a certification lower-cased and trimmed
C5_Lower(cert) == Trim(ToLowerCase(cert))

C5_OriginalCerts ==
    IF Has(original, "certifications") THEN Range(original.certifications) ELSE {}

\* C5: a tailored resume with a certifications list is accepted only if
\* every certification equals an original one after lower-casing and
\* trimming; once the earlier blocks have passed, one certification that
\* equals none (any at all when the original has none) makes validation
\* throw, and generateTailoredResume does not return the resume.
C5_CertificationsLocked ==
    /\ Accepted /\ Has(tailored, "certifications") =>
          \A c \in Range(tailored.certifications) :
              \E oc \in C5_OriginalCerts : C5_Lower(c) = C5_Lower(oc)
    /\ /\ Left("certifications")
       /\ Has(response, "certifications")
       /\ \E c \in Range(response.certifications) :
              \A oc \in C5_OriginalCerts : C5_Lower(c) # C5_Lower(oc)
       => pc = "threw" /\ error \in CertificationErrors

\* C5 witness: "AWS Certified Developer" against an original that holds
\* only "AWS Certified Solutions Architect (2022)" threw
C5_Witness ==
    /\ pc = "threw"
    /\ error \in CertificationErrors
    /\ Has(original, "certifications")
    /\ original.certifications = <<CertArchitect>>
    /\ CertDeveloper \in Range(response.certifications)

\* C6: a response with more work entries, or more education entries, than
\* the original makes validation throw, the work count error being the
\* one reported once personalInfo has passed; so an accepted tailored
\* resume has at most as many of each as the original.
C6_CountMonotone ==
    /\ Accepted =>
          /\ Len(tailored.workExperience) <= Len(original.workExperience)
          /\ Len(tailored.education) <= Len(original.education)
    /\ /\ Left("workExperience")
       /\ Has(response, "workExperience")
       /\ Len(response.workExperience) > Len(original.workExperience)
       => /\ pc = "threw"
          /\ error = "Validation failed: Cannot add work experiences not in original resume"
    /\ /\ Left("education")
       /\ Has(response, "education")
       /\ Len(response.education) > Len(original.education)
       => pc = "threw"

\* C6 witness: three tailored jobs against two original jobs threw the
\* count error
C6_Witness ==
    /\ pc = "threw"
    /\ error = "Validation failed: Cannot add work experiences not in original resume"
    /\ Len(original.workExperience) = 2
    /\ Has(response, "workExperience")
    /\ Len(response.workExperience) = 3

\* C7: an accepted tailored resume has a non-empty skill list whenever the
\* original skill list is non-empty.
C7_SkillsNeverEmptied ==
    Accepted /\ original.skills # <<>> => tailored.skills # <<>>

\* skill is original with a hyphen in the place of one or more of its
\* spaces, each of them a single space between two words
HyphenForSpace(skill, orig) ==
    /\ Len(skill) = Len(orig)
    /\ \E i \in DOMAIN orig : skill[i] # orig[i]
    /\ \A i \in DOMAIN orig :
          skill[i] # orig[i] =>
              /\ skill[i] = "-" /\ orig[i] = " "
              /\ 1 < i /\ i < Len(orig)
              /\ orig[i - 1] \notin WhiteSpace /\ orig[i + 1] \notin WhiteSpace

\* the skills of the response that have a hyphen for a space of an
\* original skill
C8_HyphenSkills ==
    IF Has(response, "skills")
    THEN {sk \in Range(response.skills) :
             \E j \in DOMAIN original.skills : HyphenForSpace(sk, original.skills[j])}
    ELSE {}

\* C8 as stated: a tailored skill with a hyphen where an original skill
\* has a space is not collected as rejected and stays in the output, and
\* the restore-original fallback does not fire when the tailored skills
\* are all of this kind.
C8_HyphenForSpaceAccepted ==
    Left("skills") =>
        /\ \A sk \in C8_HyphenSkills :
              sk \notin Range(invalidSkills) /\ sk \in Range(tailored.skills)
        /\ (C8_HyphenSkills # {} /\ Range(response.skills) = C8_HyphenSkills)
              => ~restored

\* the original skills other than those that skill has a hyphen for a
\* space of
C8_OtherOriginals(skill) ==
    [skills |-> SelectSeq(original.skills, LAMBDA o : ~HyphenForSpace(skill, o))]

\* C8 amended: a tailored skill with a hyphen where an original skill has
\* a single space between two words does not match that original skill;
\* unless another original skill matches it, it is collected as rejected
\* and removed from the output, and the restore-original fallback fires
\* when no tailored skill is left.
C8_HyphenForSpaceRejected ==
    Left("skills") =>
        \A sk \in C8_HyphenSkills :
            ~isAcceptedSkill(sk, C8_OtherOriginals(sk)) =>
                /\ sk \in Range(invalidSkills)
                /\ sk \notin Range(tailored.skills)
                /\ (Range(response.skills) \subseteq Range(invalidSkills)) =>
                      restored /\ tailored.skills = original.skills

\* C8 witness: "Machine-Learning" alone against "Machine Learning" alone
\* was rejected and the original list restored
C8_Witness ==
    /\ Left("skills")
    /\ original.skills = <<MachineLearning>>
    /\ Has(response, "skills")
    /\ response.skills = <<MachineHyphenLearning>>
    /\ invalidSkills = <<MachineHyphenLearning>>
    /\ restored

\* the three relations between a skill and an original skill
C9_Related(skill, orig) ==
    LET a == normalizeSkill(skill)
        b == normalizeSkill(orig)
    IN  \/ a = b
        \/ Includes(a, b)
        \/ Includes(b, a)
        \/ SelectSeq(a, LAMBDA c : c # "-") = SelectSeq(b, LAMBDA c : c # "-")

\* C9: every skill of the tailored resume, once the skills block has run,
\* is related to an original skill: equal after normalization, one
\* normalized string containing the other, or equal without hyphens.
C9_SkillsRelated ==
    Left("skills") =>
        \A i \in DOMAIN tailored.skills :
            \E j \in DOMAIN original.skills :
                C9_Related(tailored.skills[i], original.skills[j])

\* C9 witness: accepted after a skill was removed and another was kept by
\* containment only
C9_Witness ==
    /\ Accepted
    /\ invalidSkills = <<PyTorch>>
    /\ tailored.skills = <<Java>>
    /\ original.skills = <<JavaScript, RestApi>>

\* the skills of the response that are related to no original skill
C10_Rejected ==
    SelectSeq(response.skills,
              LAMBDA sk : \A j \in DOMAIN original.skills :
                              ~C9_Related(sk, original.skills[j]))

\* C10: a tailored skill that matches no original skill does not make
\* validation throw; the skills block leaves the tailored skills that were
\* not rejected, in their order, or the original list when none is left.
C10_RejectedSkillsStripped ==
    /\ pc = "threw" =>
          error \in PersonalInfoErrors \cup WorkExperienceErrors
                    \cup EducationErrors \cup CertificationErrors
    /\ (Left("skills") /\ Has(response, "skills") /\ C10_Rejected # <<>>) =>
          LET kept == SelectSeq(response.skills,
                                LAMBDA sk : sk \notin Range(C10_Rejected))
          IN  /\ invalidSkills = C10_Rejected
              /\ tailored.skills = IF kept = <<>> THEN original.skills ELSE kept

\* C10 witness: accepted with one of two skills rejected and the other
\* kept
C10_Witness ==
    /\ Accepted
    /\ Has(response, "skills")
    /\ Len(response.skills) = 2
    /\ Len(invalidSkills) = 1
    /\ Len(tailored.skills) = 1
    /\ ~restored

\* a copy of an entry of the original that lacks the one key
C11_CopyLacking(exp, originalExp, key) ==
    exp = Restrict(originalExp, WorkKeys \ {key})

\* C11: a tailored work entry that lacks one of company, title, startDate,
\* endDate and bullets, and is otherwise a copy of an original entry, does
\* not make validation fail: once the work block has been left, no work
\* experience error was thrown and the entry holds the original's value in
\* the missing field.
C11_MissingFieldBackFilled ==
    /\ Left("workExperience")
    /\ Has(response, "workExperience")
    /\ Len(response.workExperience) = 1
    => \A j \in DOMAIN original.workExperience : \A key \in WorkKeys :
          C11_CopyLacking(response.workExperience[1],
                          original.workExperience[j], key)
          => /\ error \notin WorkExperienceErrors
             /\ tailored.workExperience[1] = original.workExperience[j]

\* C24: validateTailoredResume never changes a field of the original
\* resume, whether it returns or throws: no step of it writes to the
\* original.
C24_OriginalUntouched == [][original' = original]_vars

\* C24 witness: the validator has returned after it removed the skills
\* that are not in the original and restored the original skills, and
\* the original is the one it was called with
C24_Witness ==
    /\ pc = "returned"
    /\ restored
    /\ Len(invalidSkills) > 0
    /\ tailored # response
    /\ tailored.skills = original.skills
    /\ \/ original = BaseOriginal
       \/ \E c \in SkillCases : original = c[1]

\* the generic placeholders of lines 377, 385 and 393
Placeholders ==
    [degree |-> "Degree", field |-> "General Studies",
     graduationDate |-> "N/A"]

\* C28: when the education list of the response is no longer than the
\* original's and the education block has run, every tailored entry had
\* an original entry to fill from, the one with its institution or else
\* the one at its index: the block did not throw, each missing field
\* holds the value of that original entry and none holds a placeholder.
C28_NoPlaceholder ==
    /\ Left("education")
    /\ Has(response, "education")
    /\ Len(response.education) <= Len(original.education)
    => /\ error \notin EducationErrors
       /\ \A i \in DOMAIN response.education :
             LET idx == findOriginalEdu(response.education[i], i, original)
             IN  /\ idx # 0
                 /\ \A key \in DOMAIN Placeholders :
                       Falsy(response.education[i], key) =>
                           /\ tailored.education[i][key]
                                 = original.education[idx][key]
                           /\ tailored.education[i][key] # Placeholders[key]

\* C28 witness: the second entry of the response names an institution
\* that the original does not have and lacks its degree, and the
\* education block has filled it from the second original entry
C28_Witness ==
    /\ Past("education")
    /\ Len(response.education) = 2
    /\ Len(original.education) = 2
    /\ ~Has(response.education[2], "degree")
    /\ \A i \in DOMAIN original.education :
          original.education[i].institution
             # response.education[2].institution
    /\ tailored.education[2].degree = original.education[2].degree

----
\* The design system of src/lib/claudeConfig.ts: the base configuration,
\* the three theme presets and getDesignSystemWithPreset, which lays a
\* preset over the base.

\* lines 124-231: the base design system; lengths in points, lineHeight
\* and letterSpacing in tenths (14 is 1.4)
DESIGN_SYSTEM ==
    [colors |-> [primary |-> "#4A5568",
                 accent |-> "#5B7FBA",
                 text |-> [primary |-> "#2D3748",
                           secondary |-> "#718096",
                           light |-> "#A0AEC0"],
                 background |-> "#FFFFFF",
                 divider |-> "#E2E8F0",
                 sectionBg |-> "#F7FAFC"],
     typography |-> [fonts |-> [primary |-> "Calibri, Arial, sans-serif",
                                fallback |-> "Arial, Helvetica, sans-serif"],
                     sizes |-> [name |-> 24,
                                jobTitle |-> 13,
                                sectionHeader |-> 12,
                                body |-> 11,
                                contact |-> 10,
                                date |-> 10],
                     weights |-> [name |-> "bold",
                                  sectionHeader |-> "bold",
                                  jobTitle |-> "600",
                                  company |-> "normal",
                                  body |-> "normal"]],
     spacing |-> [pageMargin |-> [top |-> 40,
                                  right |-> 45,
                                  bottom |-> 40,
                                  left |-> 45],
                  sectionGap |-> 18,
                  jobGap |-> 14,
                  bulletGap |-> 6,
                  lineHeight |-> 14,
                  nameToContact |-> 4,
                  contactToSummary |-> 16,
                  headerToContent |-> 10],
     layout |-> [maxWidth |-> 612,
                 contentWidth |-> 522,
                 bulletIndent |-> 20,
                 dateAlign |-> "right",
                 textAlign |-> "left"],
     sections |-> [header |-> [underline |-> [enabled |-> TRUE,
                                              thickness |-> 1,
                                              color |-> "#E2E8F0",
                                              gap |-> 6],
                               uppercase |-> TRUE,
                               letterSpacing |-> 5]],
     elements |-> [bullet |-> [symbol |-> "U+2022",
                               color |-> "#4A5568",
                               size |-> 11],
                   nameCard |-> [enabled |-> TRUE,
                                 background |-> "#F7FAFC",
                                 padding |-> [top |-> 16,
                                              bottom |-> 16,
                                              left |-> 20,
                                              right |-> 20],
                                 borderRadius |-> 0]]]

\* lines 427-506
CLASSIC_ATS_PRESET ==
    [colors |-> [primary |-> "#000000",
                 accent |-> "#000000",
                 text |-> [primary |-> "#000000",
                           secondary |-> "#000000",
                           light |-> "#000000"],
                 background |-> "#FFFFFF",
                 divider |-> "#000000",
                 sectionBg |-> "#FFFFFF"],
     typography |-> [fonts |-> [primary |-> "Arial, Helvetica, sans-serif",
                                fallback |-> "Arial, Helvetica, sans-serif"],
                     sizes |-> [name |-> 22,
                                jobTitle |-> 12,
                                sectionHeader |-> 11,
                                body |-> 10,
                                contact |-> 10,
                                date |-> 10],
                     weights |-> [name |-> "bold",
                                  sectionHeader |-> "bold",
                                  jobTitle |-> "bold",
                                  company |-> "normal",
                                  body |-> "normal"]],
     spacing |-> [pageMargin |-> [top |-> 36,
                                  right |-> 36,
                                  bottom |-> 36,
                                  left |-> 36],
                  sectionGap |-> 12,
                  jobGap |-> 10,
                  bulletGap |-> 4,
                  lineHeight |-> 12,
                  nameToContact |-> 2,
                  contactToSummary |-> 12,
                  headerToContent |-> 8],
     sections |-> [header |-> [underline |-> [enabled |-> FALSE,
                                              thickness |-> 0,
                                              color |-> "#000000",
                                              gap |-> 0],
                               uppercase |-> TRUE,
                               letterSpacing |-> 0]],
     elements |-> [bullet |-> [symbol |-> "U+2022",
                               color |-> "#000000",
                               size |-> 10],
                   nameCard |-> [enabled |-> FALSE,
                                 background |-> "#FFFFFF",
                                 padding |-> [top |-> 0,
                                              bottom |-> 0,
                                              left |-> 0,
                                              right |-> 0],
                                 borderRadius |-> 0]]]

\* lines 513-592
PROFESSIONAL_PRESET ==
    [colors |-> [primary |-> "#4A5568",
                 accent |-> "#5B7FBA",
                 text |-> [primary |-> "#2D3748",
                           secondary |-> "#718096",
                           light |-> "#A0AEC0"],
                 background |-> "#FFFFFF",
                 divider |-> "#E2E8F0",
                 sectionBg |-> "#F7FAFC"],
     typography |-> [fonts |-> [primary |-> "Calibri, Arial, sans-serif",
                                fallback |-> "Arial, Helvetica, sans-serif"],
                     sizes |-> [name |-> 24,
                                jobTitle |-> 13,
                                sectionHeader |-> 12,
                                body |-> 11,
                                contact |-> 10,
                                date |-> 10],
                     weights |-> [name |-> "bold",
                                  sectionHeader |-> "bold",
                                  jobTitle |-> "600",
                                  company |-> "normal",
                                  body |-> "normal"]],
     spacing |-> [pageMargin |-> [top |-> 40,
                                  right |-> 45,
                                  bottom |-> 40,
                                  left |-> 45],
                  sectionGap |-> 12,
                  jobGap |-> 14,
                  bulletGap |-> 6,
                  lineHeight |-> 14,
                  nameToContact |-> 4,
                  contactToSummary |-> 16,
                  headerToContent |-> 10],
     sections |-> [header |-> [underline |-> [enabled |-> TRUE,
                                              thickness |-> 1,
                                              color |-> "#E2E8F0",
                                              gap |-> 6],
                               uppercase |-> TRUE,
                               letterSpacing |-> 5]],
     elements |-> [bullet |-> [symbol |-> "U+2022",
                               color |-> "#4A5568",
                               size |-> 11],
                   nameCard |-> [enabled |-> TRUE,
                                 background |-> "#F7FAFC",
                                 padding |-> [top |-> 16,
                                              bottom |-> 16,
                                              left |-> 20,
                                              right |-> 20],
                                 borderRadius |-> 0]]]

\* lines 599-678
MODERN_PRESET ==
    [colors |-> [primary |-> "#2D3748",
                 accent |-> "#4299E1",
                 text |-> [primary |-> "#1A202C",
                           secondary |-> "#4A5568",
                           light |-> "#718096"],
                 background |-> "#FFFFFF",
                 divider |-> "#CBD5E0",
                 sectionBg |-> "#EDF2F7"],
     typography |-> [fonts |-> [primary |-> "Calibri, Arial, sans-serif",
                                fallback |-> "Arial, Helvetica, sans-serif"],
                     sizes |-> [name |-> 26,
                                jobTitle |-> 14,
                                sectionHeader |-> 13,
                                body |-> 11,
                                contact |-> 10,
                                date |-> 10],
                     weights |-> [name |-> "bold",
                                  sectionHeader |-> "bold",
                                  jobTitle |-> "600",
                                  company |-> "normal",
                                  body |-> "normal"]],
     spacing |-> [pageMargin |-> [top |-> 36,
                                  right |-> 40,
                                  bottom |-> 36,
                                  left |-> 40],
                  sectionGap |-> 20,
                  jobGap |-> 16,
                  bulletGap |-> 8,
                  lineHeight |-> 15,
                  nameToContact |-> 6,
                  contactToSummary |-> 18,
                  headerToContent |-> 12],
     sections |-> [header |-> [underline |-> [enabled |-> TRUE,
                                              thickness |-> 2,
                                              color |-> "#CBD5E0",
                                              gap |-> 8],
                               uppercase |-> TRUE,
                               letterSpacing |-> 10]],
     elements |-> [bullet |-> [symbol |-> "U+2022",
                               color |-> "#4299E1",
                               size |-> 12],
                   nameCard |-> [enabled |-> TRUE,
                                 background |-> "#EDF2F7",
                                 padding |-> [top |-> 20,
                                              bottom |-> 20,
                                              left |-> 24,
                                              right |-> 24],
                                 borderRadius |-> 4]]]

\* {...a, ...b}
Spread(a, b) ==
    [k \in DOMAIN a \cup DOMAIN b |-> IF k \in DOMAIN b THEN b[k] ELSE a[k]]

\* obj?.key || {}, and what ...obj.key spreads when the key is missing
OrEmpty(obj, key) == IF key \in DOMAIN obj THEN obj[key] ELSE EmptyObject

\* lines 689-700: the switch on the preset name
presetOf(preset) ==
    CASE preset = "classic" -> CLASSIC_ATS_PRESET
      [] preset = "modern" -> MODERN_PRESET
      [] OTHER -> PROFESSIONAL_PRESET

\* lines 703-758: the returned object
mergePreset(base, config) ==
    LET typography == OrEmpty(config, "typography")
        spacing == OrEmpty(config, "spacing")
        sections == OrEmpty(config, "sections")
        header == OrEmpty(sections, "header")
        elements == OrEmpty(config, "elements")
        nameCard == OrEmpty(elements, "nameCard")
    IN  [colors |-> Spread(base.colors, OrEmpty(config, "colors")),
         typography |->
            Spread(Spread(base.typography, typography),
                   [fonts |-> Spread(base.typography.fonts,
                                     OrEmpty(typography, "fonts")),
                    sizes |-> Spread(base.typography.sizes,
                                     OrEmpty(typography, "sizes")),
                    weights |-> Spread(base.typography.weights,
                                       OrEmpty(typography, "weights"))]),
         spacing |->
            Spread(Spread(base.spacing, spacing),
                   [pageMargin |-> Spread(base.spacing.pageMargin,
                                          OrEmpty(spacing, "pageMargin"))]),
         layout |-> Spread(base.layout, OrEmpty(config, "layout")),
         sections |->
            Spread(Spread(base.sections, sections),
                   [header |->
                       Spread(Spread(base.sections.header, header),
                              [underline |->
                                  Spread(base.sections.header.underline,
                                         OrEmpty(header, "underline"))])]),
         elements |->
            Spread(Spread(base.elements, elements),
                   [bullet |-> Spread(base.elements.bullet,
                                      OrEmpty(elements, "bullet")),
                    nameCard |->
                       Spread(Spread(base.elements.nameCard, nameCard),
                              [padding |->
                                  Spread(base.elements.nameCard.padding,
                                         OrEmpty(nameCard, "padding"))])])]

\* lines 683-759
getDesignSystemWithPreset(preset) ==
    mergePreset(DESIGN_SYSTEM, presetOf(preset))

ThemePresets == {"classic", "professional", "modern"}

\* the keys of the design system that hold an object
ObjectKeys ==
    {"colors", "text", "typography", "fonts", "sizes", "weights", "spacing",
     "pageMargin", "layout", "sections", "header", "underline", "elements",
     "bullet", "nameCard", "padding"}

\* the paths from obj to its fields that hold no object
RECURSIVE LeafPaths(_)
LeafPaths(obj) ==
    UNION {IF k \in ObjectKeys
           THEN {<<k>> \o p : p \in LeafPaths(obj[k])}
           ELSE {<<k>>} : k \in DOMAIN obj}

\* the part of obj that holds the field at the path and nothing else
RECURSIVE Only(_, _)
Only(obj, path) ==
    LET k == Head(path)
    IN  k :> (IF Len(path) = 1 THEN obj[k] ELSE Only(obj[k], Tail(path)))

\* the preset overrides: the three presets, and every override that
\* supplies one field of a preset
PresetOverrides ==
    {presetOf(p) : p \in ThemePresets}
    \cup UNION {{Only(presetOf(p), path) : path \in LeafPaths(presetOf(p))} :
                p \in {"classic", "modern"}}

InitTheme ==
    /\ presetConfig \in PresetOverrides
    /\ designSystem = EmptyObject
    /\ GeneratorIdle
    /\ ExportIdle
    /\ WrapIdle
    /\ ServiceIdle

\* lines 703-758 on the override
ResolveTheme ==
    /\ designSystem = EmptyObject
    /\ designSystem' = mergePreset(DESIGN_SYSTEM, presetConfig)
    /\ UNCHANGED <<presetConfig, generatorVars, exportVars, wrapVars, serviceVars>>

NextTheme == ResolveTheme

SpecTheme == InitTheme /\ [][NextTheme]_vars

\* base with every field that the override defines, at any depth, set to
\* the override's value
RECURSIVE DeepMerge(_, _)
DeepMerge(base, override) ==
    [k \in DOMAIN base \cup DOMAIN override |->
        IF k \notin DOMAIN override THEN base[k]
        ELSE IF k \in DOMAIN base /\ k \in ObjectKeys
        THEN DeepMerge(base[k], override[k])
        ELSE override[k]]

C27_ContentWidthFitsMargins ==
    /\ designSystem # EmptyObject
    /\ presetConfig \in {presetOf(preset) : preset \in ThemePresets}
    => designSystem.layout.contentWidth
          = designSystem.layout.maxWidth
            - designSystem.spacing.pageMargin.left
            - designSystem.spacing.pageMargin.right

----
\* The theme-based PDF exporter, exportResumeToPDF of src/unnamed/part_011.
\*
\* Lengths are in tenths of a point, so that a line height (font size
\* times 1.4) is an integer.  jsPDF measures and wraps the text, so a text
\* is given by the number of lines that doc.splitTextToSize returns for it
\* under the theme: resumeData.summary and resumeData.skills are the line
\* counts of the summary and of skills.join(", "), 0 for "" and for an
\* empty list; a bullet and a certification are the line count of their
\* display text, 0 when nothing is left once the marker is removed;
\* resumeData.contact is the number of contact parts (email, phone,
\* location, linkedIn) that personalInfo holds.
\*
\* cursor is the document and the local y of the renderers: the page
\* being written, the text blocks placed so far and the page breaks made.

\* lengths of the design system are in points
Tenths(pt) == pt * 10

\* line 49
pageHeight == Tenths(792)

\* src/lib/claudeConfig.ts lines 326-328; the factor is the lineHeight of
\* the base design system, whatever the theme
calculateLineHeight(fontSize) == fontSize * DESIGN_SYSTEM.spacing.lineHeight

\* the text that a block prints: a line, symbol or header of a section
Block(section, kind, job, item, line) ==
    [section |-> section, kind |-> kind, job |-> job, item |-> item,
     line |-> line]

\* lines 66-98: doc.text(text, x, y) in the given size on the current page
addText(c, text, x, y, size) ==
    [c EXCEPT !.placed =
        Append(@, text @@ [page |-> c.page, x |-> x, y |-> y, size |-> size])]

\* lines 116-147
addSectionHeader(c, ds, section) ==
    LET underline == ds.sections.header.underline
        newY == c.y + calculateLineHeight(ds.typography.sizes.sectionHeader)
        afterLine == IF underline.enabled
                     THEN newY + Tenths(underline.gap) + Tenths(underline.gap)
                     ELSE newY
        c1 == addText(c, Block(section, "header", 0, 0, 0),
                      Tenths(ds.spacing.pageMargin.left), c.y,
                      ds.typography.sizes.sectionHeader)
    IN  [c1 EXCEPT !.y = afterLine + Tenths(ds.spacing.headerToContent)]

\* lines 152-183: lines is the line count of the display text
addBullet(c, ds, section, job, item, lines, x) ==
    LET lineHeight == calculateLineHeight(ds.typography.sizes.body)
        c1 == addText(c, Block(section, "symbol", job, item, 0), x, c.y,
                      ds.elements.bullet.size)
        texts == [index \in 1..lines |->
                    Block(section, "bullet", job, item, index)
                    @@ [page |-> c.page,
                        x |-> x + Tenths(ds.layout.bulletIndent),
                        y |-> c.y + (index - 1) * lineHeight,
                        size |-> ds.typography.sizes.body]]
    IN  IF lines = 0 THEN c
        ELSE [c1 EXCEPT !.placed = @ \o texts,
                        !.y = c.y + lines * lineHeight
                              + Tenths(ds.spacing.bulletGap)]

\* checkPageBreak breaking for twice the required height
checkPageBreakEager(c, ds, requiredHeight) ==
    IF c.y + requiredHeight + requiredHeight
          > pageHeight - Tenths(ds.spacing.pageMargin.bottom)
    THEN [c EXCEPT !.page = @ + 1,
                   !.y = Tenths(ds.spacing.pageMargin.top),
                   !.breaks = Append(@, [page |-> c.page + 1, y |-> c.y,
                                         requiredHeight |-> requiredHeight])]
    ELSE c

\* lines 190-200 and the y = spacing.pageMargin.top of every caller
checkPageBreak(c, ds, requiredHeight) ==
    IF c.y + requiredHeight > pageHeight - Tenths(ds.spacing.pageMargin.bottom)
    THEN [c EXCEPT !.page = @ + 1,
                   !.y = Tenths(ds.spacing.pageMargin.top),
                   !.breaks = Append(@, [page |-> c.page + 1, y |-> c.y,
                                         requiredHeight |-> requiredHeight])]
    ELSE c

\* lines 205-256
renderNameSection(c, ds, data) ==
    LET sizes == ds.typography.sizes
        top == Tenths(ds.spacing.pageMargin.top)
        centerX == Tenths(ds.layout.maxWidth) \div 2
        c1 == addText(c, Block("name", "name", 0, 0, 0), centerX, top,
                      sizes.name)
        y1 == top + calculateLineHeight(sizes.name)
              + Tenths(ds.spacing.nameToContact)
        c2 == IF data.contact > 0
              THEN addText(c1, Block("name", "contact", 0, 0, 0), centerX, y1,
                           sizes.contact)
              ELSE c1
        y2 == IF data.contact > 0 THEN y1 + calculateLineHeight(sizes.contact)
              ELSE y1
    IN  [c2 EXCEPT !.y = y2 + Tenths(ds.spacing.contactToSummary)]

\* lines 268-274 and 404-410: the body of the forEach callback for the
\* line at index
textLine(c, ds, section, index) ==
    LET lineHeight == calculateLineHeight(ds.typography.sizes.body)
        c1 == checkPageBreak(c, ds, lineHeight)
        c2 == addText(c1, Block(section, "line", 0, 0, index),
                      Tenths(ds.spacing.pageMargin.left), c1.y,
                      ds.typography.sizes.body)
    IN  [c2 EXCEPT !.y = @ + lineHeight]

\* lines 267-275 and 403-411: lines.forEach over the lines first..last in
\* order: the first half of them and, once these are placed, the rest
RECURSIVE textLines(_, _, _, _, _)
textLines(c, ds, section, first, last) ==
    IF first > last THEN c
    ELSE IF first = last THEN textLine(c, ds, section, first)
    ELSE LET middle == (first + last) \div 2
             half == textLines(c, ds, section, first, middle)
         IN  IF Len(half.placed) > 0
             THEN textLines(half, ds, section, middle + 1, last)
             ELSE half

\* lines 261-278
renderSummary(c, ds, summary) ==
    LET c1 == textLines(addSectionHeader(c, ds, "summary"), ds, "summary", 1,
                        summary)
    IN  [c1 EXCEPT !.y = @ + Tenths(ds.spacing.sectionGap)]

\* lines 332-337: job.bullets.forEach from bullet item on
RECURSIVE jobBullets(_, _, _, _, _)
jobBullets(c, ds, job, item, bullets) ==
    IF item > Len(bullets) THEN c
    ELSE LET c1 == checkPageBreak(c, ds,
                       calculateLineHeight(ds.typography.sizes.body) * 2)
         IN  jobBullets(addBullet(c1, ds, "work", job, item, bullets[item],
                                  Tenths(ds.spacing.pageMargin.left)),
                        ds, job, item + 1, bullets)

\* lines 290-343: jobs.forEach from job index on; a job is its bullets
RECURSIVE workJobs(_, _, _, _)
workJobs(c, ds, index, jobs) ==
    IF index > Len(jobs) THEN c
    ELSE LET sizes == ds.typography.sizes
             x == Tenths(ds.spacing.pageMargin.left)
             rightX == Tenths(ds.layout.maxWidth)
                       - Tenths(ds.spacing.pageMargin.right)
             estimatedHeight ==
                 calculateLineHeight(sizes.jobTitle)
                 + calculateLineHeight(sizes.body)
                 + Len(jobs[index]) * (calculateLineHeight(sizes.body)
                                       + Tenths(ds.spacing.bulletGap))
                 + Tenths(ds.spacing.jobGap)
             c1 == checkPageBreak(c, ds, estimatedHeight)
             c2 == addText(c1, Block("work", "title", index, 0, 0), x, c1.y,
                           sizes.jobTitle)
             c3 == addText(c2, Block("work", "date", index, 0, 0), rightX,
                           c1.y, sizes.date)
             y1 == c1.y + calculateLineHeight(sizes.jobTitle)
             c4 == addText(c3, Block("work", "company", index, 0, 0), x, y1,
                           sizes.body)
             c5 == [c4 EXCEPT !.y = y1 + calculateLineHeight(sizes.body)
                                    + Tenths(ds.spacing.bulletGap)]
             c6 == jobBullets(c5, ds, index, 1, jobs[index])
             c7 == IF index < Len(jobs)
                   THEN [c6 EXCEPT !.y = @ + Tenths(ds.spacing.jobGap)]
                   ELSE c6
         IN  workJobs(c7, ds, index + 1, jobs)

\* lines 283-346
renderWorkExperience(c, ds, jobs) ==
    LET c1 == workJobs(addSectionHeader(c, ds, "work"), ds, 1, jobs)
    IN  [c1 EXCEPT !.y = @ + Tenths(ds.spacing.sectionGap)]

\* lines 358-383: education.forEach from entry index on
RECURSIVE educationEntries(_, _, _, _)
educationEntries(c, ds, index, education) ==
    IF index > Len(education) THEN c
    ELSE LET body == ds.typography.sizes.body
             x == Tenths(ds.spacing.pageMargin.left)
             c1 == checkPageBreak(c, ds, calculateLineHeight(body) * 2)
             c2 == addText(c1, Block("education", "degree", 0, index, 0), x,
                           c1.y, body)
             y1 == c1.y + calculateLineHeight(body)
             c3 == addText(c2, Block("education", "institution", 0, index, 0),
                           x, y1, body)
         IN  educationEntries(
                 [c3 EXCEPT !.y = y1 + calculateLineHeight(body)
                                  + Tenths(ds.spacing.jobGap)],
                 ds, index + 1, education)

\* lines 351-386
renderEducation(c, ds, education) ==
    LET c1 == educationEntries(addSectionHeader(c, ds, "education"), ds, 1,
                               education)
    IN  [c1 EXCEPT !.y = @ + Tenths(ds.spacing.sectionGap)]

\* lines 391-415
renderSkills(c, ds, skills) ==
    LET c1 == textLines(addSectionHeader(c, ds, "skills"), ds, "skills", 1,
                        skills)
    IN  [c1 EXCEPT !.y = @ + Tenths(ds.spacing.sectionGap)]

\* lines 429-434: certifications.forEach from certification item on
RECURSIVE certificationBullets(_, _, _, _)
certificationBullets(c, ds, item, certifications) ==
    IF item > Len(certifications) THEN c
    ELSE LET c1 == checkPageBreak(c, ds,
                       calculateLineHeight(ds.typography.sizes.body))
         IN  certificationBullets(
                 addBullet(c1, ds, "certifications", 0, item,
                           certifications[item],
                           Tenths(ds.spacing.pageMargin.left)),
                 ds, item + 1, certifications)

\* lines 420-438
renderCertifications(c, ds, certifications) ==
    certificationBullets(addSectionHeader(c, ds, "certifications"), ds, 1,
                         certifications)

\* NewDocument that goes on with the document of the export before
NewDocumentReused(ds) ==
    IF cursor = EmptyObject
    THEN [page |-> 1, y |-> Tenths(ds.spacing.pageMargin.top),
          placed |-> <<>>, breaks |-> <<>>]
    ELSE [cursor EXCEPT !.y = Tenths(ds.spacing.pageMargin.top)]

\* lines 33-38 and 50: the new jsPDF document and yPosition
NewDocument(ds) ==
    [page |-> 1, y |-> Tenths(ds.spacing.pageMargin.top), placed |-> <<>>,
     breaks |-> <<>>]

\* lines 544-550
embedVisualMetadata(th, visualScore, date) ==
    [designSystem |-> "v2.0", theme |-> th, atsOptimized |-> TRUE,
     visualScore |-> visualScore, generatedDate |-> date]

----
\* The DOCX exporter, exportResumeToDOCX of src/lib/exportDOCX.ts: the
\* paragraphs pushed to children, each with its section and style.

\* src/lib/analytics.ts line 350: resumeStyles.workExperience.bullets.maxPerRole
maxPerRole == 5

Paragraph(section, style, job, item) ==
    [section |-> section, style |-> style, job |-> job, item |-> item]

\* exp.bullets.slice(0, maxBullets)
Slice(bullets, maxBullets) == SubSeq(bullets, 1, Min({Len(bullets), maxBullets}))

\* lines 329-340: the bullets of bulletsToShow from bullet item on
RECURSIVE docxBullets(_, _, _)
docxBullets(job, item, bulletsToShow) ==
    IF item > Len(bulletsToShow) THEN <<>>
    ELSE (IF bulletsToShow[item] = 0 THEN <<>>
          ELSE <<Paragraph("work", "bulletPoint", job, item)>>)
         \o docxBullets(job, item + 1, bulletsToShow)

\* lines 295-353: the jobs from job i on
RECURSIVE docxJobs(_, _)
docxJobs(i, jobs) ==
    IF i > Len(jobs) THEN <<>>
    ELSE <<Paragraph("work", "jobTitle", i, 0),
           Paragraph("work", "companyName", i, 0)>>
         \o docxBullets(i, 1, Slice(jobs[i], maxPerRole))
         \o (IF i < Len(jobs) THEN <<Paragraph("work", "spacing", i, 0)>>
             ELSE <<>>)
         \o docxJobs(i + 1, jobs)

\* lines 243-481; the skills paragraphs (one list, or a category and a list
\* for each category in use) stand as one skillsList paragraph
exportResumeToDOCX(data) ==
    <<Paragraph("name", "resumeName", 0, 0)>>
    \o [i \in 1..data.contact |-> Paragraph("name", "contactInfo", 0, i)]
    \o (IF data.summary # 0
        THEN <<Paragraph("summary", "sectionHeader", 0, 0),
               Paragraph("summary", "bodyText", 0, 0)>>
        ELSE <<>>)
    \o (IF Len(data.workExperience) > 0
        THEN <<Paragraph("work", "sectionHeader", 0, 0)>>
             \o docxJobs(1, data.workExperience)
        ELSE <<>>)
    \o (IF Len(data.education) > 0
        THEN <<Paragraph("education", "sectionHeader", 0, 0)>>
             \o [k \in 1..2 * Len(data.education) |->
                    Paragraph("education",
                              IF k % 2 = 1 THEN "educationDegree"
                              ELSE "bodyText", 0, (k + 1) \div 2)]
        ELSE <<>>)
    \o (IF data.skills # 0
        THEN <<Paragraph("skills", "sectionHeader", 0, 0),
               Paragraph("skills", "skillsList", 0, 0)>>
        ELSE <<>>)
    \o (IF Len(data.certifications) > 0
        THEN <<Paragraph("certifications", "sectionHeader", 0, 0)>>
             \o [i \in 1..Len(data.certifications) |->
                    Paragraph("certifications", "bulletPoint", 0, i)]
        ELSE <<>>)

----
\* The exporters at work: exportResumeToPDF, section by section, and
\* exportResumeToDOCX.  step is the part of exportResumeToPDF that runs
\* next, "begin" before the call and "done" after it; a finished render may
\* be followed by one more render of the same resume under the same theme
\* at a later time, earlier holding what the first one produced.

\* most lines of a wrapped summary
MaxSummaryLines == 41
\* longest workExperience list built from the whole job pool
MaxJobs == 1
\* longest education list
MaxEducation == 2
\* longest certifications list
MaxCertifications == 1

\* no summary, and the summaries that fill the first page or nearly
SummaryLines == {0} \cup ((MaxSummaryLines - 4)..MaxSummaryLines)

\* a job with one bullet more than maxPerRole
SixBullets == <<1, 1, 1, 1, 1, 1>>

\* jobs by the line counts of their bullets: none, a bullet that wraps
\* after or before a short one, a bullet that is only the [LESS_RELEVANT]
\* marker, and SixBullets
JobPool == {<<>>, <<1, 3>>, <<3, 1>>, <<0, 1>>, SixBullets}

\* the job lists, two lists of two jobs among them
WorkLists ==
    SeqsUpTo(JobPool, MaxJobs) \cup {<<<<1, 3>>, <<1>>>>, <<<<>>, SixBullets>>}

EducationLists == {[i \in 1..n |-> "BSc in Mathematics"] : n \in 0..MaxEducation}

\* resumes that vary in their jobs
WorkResumes ==
    [contact : {1}, summary : SummaryLines, workExperience : WorkLists,
     education : {<<>>}, skills : {0, 1}, certifications : {<<>>}]

\* resumes that vary in the sections after the jobs
TailResumes ==
    [contact : {1}, summary : SummaryLines, workExperience : {<<>>},
     education : EducationLists, skills : {0, 1},
     certifications : SeqsUpTo({1, 3}, MaxCertifications)]

\* resumes that vary in their contact parts
ContactResumes ==
    [contact : {0, 2}, summary : {0, 1}, workExperience : {<<<<1>>>>},
     education : {<<>>}, skills : {2}, certifications : {<<>>}]

\* short resumes with any choice of sections
SectionResumes ==
    [contact : {1}, summary : {0, 1}, workExperience : {<<>>, <<<<1>>>>},
     education : EducationLists, skills : {0, 1},
     certifications : {<<>>, <<1>>}]

InitExport ==
    /\ \/ resumeData \in WorkResumes
       \/ resumeData \in TailResumes
       \/ resumeData \in ContactResumes
       \/ resumeData \in SectionResumes
    /\ theme \in ThemePresets
    /\ step = "begin"
    /\ cursor = EmptyObject
    /\ metadata = EmptyObject
    /\ now = 0
    /\ earlier = EmptyObject
    /\ docx = <<>>
    /\ qaReport = EmptyObject
    /\ pdfBlob = EmptyObject
    /\ ThemeIdle
    /\ GeneratorIdle
    /\ WrapIdle
    /\ ServiceIdle

\* lines 25-50: the design system of the theme and a new document
Begin ==
    /\ step = "begin"
    /\ presetConfig' = presetOf(theme)
    /\ designSystem' = getDesignSystemWithPreset(theme)
    /\ cursor' = NewDocument(getDesignSystemWithPreset(theme))
    /\ step' = "name"
    /\ UNCHANGED <<resumeData, theme, metadata, now, earlier, docx, qaReport,
                   pdfBlob>>
    /\ UNCHANGED <<generatorVars, wrapVars, serviceVars>>

\* the rest of a section step
Goes(next) ==
    /\ step' = next
    /\ UNCHANGED <<resumeData, theme, metadata, now, earlier, docx, qaReport,
                   pdfBlob>>
    /\ UNCHANGED <<themeVars, generatorVars, wrapVars, serviceVars>>

\* line 464
NameSection ==
    /\ step = "name"
    /\ cursor' = renderNameSection(cursor, designSystem, resumeData)
    /\ Goes("summary")

\* lines 466-468
SummarySection ==
    /\ step = "summary"
    /\ cursor' = IF resumeData.summary # 0
                 THEN renderSummary(cursor, designSystem, resumeData.summary)
                 ELSE cursor
    /\ Goes("work")

\* lines 470-473
WorkSection ==
    /\ step = "work"
    /\ cursor' = IF Len(resumeData.workExperience) > 0
                 THEN renderWorkExperience(cursor, designSystem,
                                           resumeData.workExperience)
                 ELSE cursor
    /\ Goes("education")

\* EducationSection without the test of education.length
EducationSectionAlways ==
    /\ step = "education"
    /\ cursor' = renderEducation(cursor, designSystem, resumeData.education)
    /\ Goes("skills")

\* lines 475-478
EducationSection ==
    /\ step = "education"
    /\ cursor' = IF Len(resumeData.education) > 0
                 THEN renderEducation(cursor, designSystem,
                                      resumeData.education)
                 ELSE cursor
    /\ Goes("skills")

\* lines 480-485
SkillsSection ==
    /\ step = "skills"
    /\ cursor' =
          IF resumeData.skills # 0
          THEN LET skillsEnd == renderSkills(cursor, designSystem,
                                             resumeData.skills)
                   hasNextSection == Len(resumeData.certifications) > 0
               IN  [skillsEnd EXCEPT !.y =
                       IF hasNextSection THEN @
                       ELSE @ - Tenths(designSystem.spacing.sectionGap)]
          ELSE cursor
    /\ Goes("certifications")

\* lines 487-489
CertificationsSection ==
    /\ step = "certifications"
    /\ cursor' = IF Len(resumeData.certifications) > 0
                 THEN renderCertifications(cursor, designSystem,
                                           resumeData.certifications)
                 ELSE cursor
    /\ Goes("output")

\* lines 498-503: the metadata, stamped with the time, and the blob
Output ==
    /\ step = "output"
    /\ metadata' = embedVisualMetadata(theme, 100, now)
    /\ pdfBlob' = [pages |-> cursor.page, placed |-> cursor.placed]
    /\ step' = "qa"
    /\ UNCHANGED <<resumeData, theme, cursor, now, earlier, docx, qaReport>>
    /\ UNCHANGED <<themeVars, generatorVars, wrapVars, serviceVars>>

\* what checkVisualConsistency may do: a report without issues, a report
\* with issues and the lowest score (in hundredths), or an exception
QAOutcomes ==
    {[overall |-> 10000, issues |-> 0], [overall |-> 6667, issues |-> 33],
     [threw |-> TRUE]}

\* QualityCheck that lets the exception of the check end the export
QualityCheckThrowing ==
    /\ step = "qa"
    /\ \E report \in QAOutcomes :
          /\ qaReport' = report
          /\ pdfBlob' = IF "threw" \in DOMAIN report THEN EmptyObject
                        ELSE pdfBlob
    /\ step' = "done"
    /\ UNCHANGED <<resumeData, theme, cursor, metadata, now, earlier, docx>>
    /\ UNCHANGED <<themeVars, generatorVars, wrapVars, serviceVars>>

\* lines 505-517: the visual score after the blob, in a try, and the
\* return of the blob
QualityCheck ==
    /\ step = "qa"
    /\ \E report \in QAOutcomes : qaReport' = report
    /\ step' = "done"
    /\ UNCHANGED <<resumeData, theme, cursor, metadata, now, earlier, docx,
                   pdfBlob>>
    /\ UNCHANGED <<themeVars, generatorVars, wrapVars, serviceVars>>

\* the same resume and theme are exported again, later
Rerender ==
    /\ step = "done"
    /\ earlier = EmptyObject
    /\ earlier' = [pages |-> cursor.page, placed |-> cursor.placed,
                   pdfBlob |-> pdfBlob, qaReport |-> qaReport]
    /\ now' = now + 1
    /\ step' = "begin"
    /\ qaReport' = EmptyObject
    /\ pdfBlob' = EmptyObject
    /\ UNCHANGED <<resumeData, theme, cursor, metadata, docx>>
    /\ UNCHANGED <<themeVars, generatorVars, wrapVars, serviceVars>>

\* src/lib/exportDOCX.ts lines 243-481, once the PDF exports are over
ExportDocx ==
    /\ step = "done"
    /\ earlier # EmptyObject
    /\ docx = <<>>
    /\ docx' = exportResumeToDOCX(resumeData)
    /\ UNCHANGED <<resumeData, theme, step, cursor, metadata, now, earlier,
                   qaReport, pdfBlob>>
    /\ UNCHANGED <<themeVars, generatorVars, wrapVars, serviceVars>>

NextExport ==
    \/ Begin
    \/ NameSection
    \/ SummarySection
    \/ WorkSection
    \/ EducationSection
    \/ SkillsSection
    \/ CertificationsSection
    \/ Output
    \/ QualityCheck
    \/ Rerender
    \/ ExportDocx

SpecExport == InitExport /\ [][NextExport]_vars

\* the bottom of the content area of a page
PageBottom == pageHeight - Tenths(designSystem.spacing.pageMargin.bottom)

\* the height of a placed block: the line height of its font size
BlockHeight(b) == calculateLineHeight(b.size)

\* the main rendering is over
Rendered == step \in {"output", "qa", "done"}

----
\* The properties of the exporters.

\* C12: in the theme-based PDF exporter every block (section header,
\* summary or skills line, job title and company line, education line, each
\* line of a bullet) is placed where it ends at or above the bottom margin
\* of its page, y + height <= pageHeight - bottom margin; no block of the
\* exporter is taller than a page.
C12_BlocksFit ==
    cursor # EmptyObject
    => \A i \in DOMAIN cursor.placed :
          cursor.placed[i].y + BlockHeight(cursor.placed[i]) <= PageBottom

\* the first block placed on the page
FirstOnPage(page) ==
    cursor.placed[Min({i \in DOMAIN cursor.placed :
                          cursor.placed[i].page = page})]

\* every bullet and certification of the resume has display text, so that
\* the block placed first on a new page is the one the page was started for
NoBlankBullet ==
    /\ \A i \in DOMAIN resumeData.workExperience :
          \A j \in DOMAIN resumeData.workExperience[i] :
             resumeData.workExperience[i][j] # 0
    /\ \A j \in DOMAIN resumeData.certifications :
          resumeData.certifications[j] # 0

\* the line count of the bullet or certification of a bullet symbol
BulletLines(b) ==
    IF b.section = "work" THEN resumeData.workExperience[b.job][b.item]
    ELSE resumeData.certifications[b.item]

\* the height that the block beginning with b takes when emitted: a text
\* line, the title and company lines of a job, the lines of a bullet, the
\* two lines of an education entry
ActualHeight(b) ==
    LET sizes == designSystem.typography.sizes
    IN  CASE b.kind = "line" -> calculateLineHeight(sizes.body)
          [] b.kind = "title" -> calculateLineHeight(sizes.jobTitle)
                                 + calculateLineHeight(sizes.body)
          [] b.kind = "symbol" -> BulletLines(b) * calculateLineHeight(sizes.body)
          [] b.kind = "degree" -> calculateLineHeight(sizes.body) * 2

\* the height that the code asks checkPageBreak for before the block
\* beginning with b
ReservedHeight(b) ==
    LET sizes == designSystem.typography.sizes
    IN  CASE b.kind = "line" -> calculateLineHeight(sizes.body)
          [] b.kind = "title" ->
                calculateLineHeight(sizes.jobTitle)
                + calculateLineHeight(sizes.body)
                + Len(resumeData.workExperience[b.job])
                  * (calculateLineHeight(sizes.body)
                     + Tenths(designSystem.spacing.bulletGap))
                + Tenths(designSystem.spacing.jobGap)
          [] b.kind = "symbol" /\ b.section = "work" ->
                calculateLineHeight(sizes.body) * 2
          [] b.kind = "symbol" /\ b.section = "certifications" ->
                calculateLineHeight(sizes.body)
          [] b.kind = "degree" -> calculateLineHeight(sizes.body) * 2

\* C13 as stated: a page break is made before a block only if the block,
\* emitted at the cursor, would end below the bottom margin: the cursor plus
\* the block's emitted height exceeds pageHeight - bottom margin.
C13_BreakOnlyWhenBlockOverflows ==
    cursor # EmptyObject /\ NoBlankBullet
    => \A k \in DOMAIN cursor.breaks :
          cursor.breaks[k].y + ActualHeight(FirstOnPage(cursor.breaks[k].page))
             > PageBottom

\* C13, amended: a page break is made before a block only if the cursor plus
\* the height the code reserves for the block exceeds pageHeight - bottom
\* margin; the reserved height is the estimate of the whole job before a
\* title, two body lines before a job's bullet and before an education
\* entry, one body line before a text line and before a certification.
C13_BreakOnlyWhenReservedOverflows ==
    cursor # EmptyObject /\ NoBlankBullet
    => \A k \in DOMAIN cursor.breaks :
          LET b == FirstOnPage(cursor.breaks[k].page)
          IN  /\ cursor.breaks[k].requiredHeight = ReservedHeight(b)
              /\ cursor.breaks[k].y + ReservedHeight(b) > PageBottom

\* C13 witness: a page was started before a block that would have fitted
\* at the cursor, because the reserved height did not
C13_Witness ==
    /\ Rendered /\ NoBlankBullet
    /\ \E k \in DOMAIN cursor.breaks :
          LET b == FirstOnPage(cursor.breaks[k].page)
          IN  /\ cursor.breaks[k].y + ActualHeight(b) <= PageBottom
              /\ cursor.breaks[k].y + ReservedHeight(b) > PageBottom

\* the sections in their fixed order
SectionOrder ==
    <<"name", "summary", "work", "education", "skills", "certifications">>

OrderOf(section) == CHOOSE i \in DOMAIN SectionOrder : SectionOrder[i] = section

\* the sections whose data is present and not empty; name is always there
PresentSections ==
    {"name"}
    \cup (IF resumeData.summary # 0 THEN {"summary"} ELSE {})
    \cup (IF Len(resumeData.workExperience) > 0 THEN {"work"} ELSE {})
    \cup (IF Len(resumeData.education) > 0 THEN {"education"} ELSE {})
    \cup (IF resumeData.skills # 0 THEN {"skills"} ELSE {})
    \cup (IF Len(resumeData.certifications) > 0 THEN {"certifications"} ELSE {})

\* the emitted items, blocks or paragraphs, go through the sections in the
\* fixed order, begin with the name and cover exactly the present sections
InFixedOrder(emitted) ==
    /\ emitted[1].section = "name"
    /\ {emitted[i].section : i \in DOMAIN emitted} = PresentSections
    /\ \A i, j \in DOMAIN emitted :
          i < j => OrderOf(emitted[i].section) <= OrderOf(emitted[j].section)

\* C14: in a PDF render and in a DOCX render the sections come in the order
\* name/contact, summary, work experience, education, skills,
\* certifications; the name comes first and every other section is emitted
\* exactly when its data is present and not empty.
C14_SectionOrder ==
    /\ Rendered => InFixedOrder(cursor.placed)
    /\ docx # <<>> => InFixedOrder(docx)

\* C14 witness: a resume with summary, job, skills and certifications but
\* no education has been rendered to PDF and to DOCX
C14_Witness ==
    /\ step = "done" /\ docx # <<>>
    /\ resumeData.summary # 0 /\ Len(resumeData.workExperience) > 0
    /\ Len(resumeData.education) = 0 /\ resumeData.skills # 0
    /\ Len(resumeData.certifications) > 0
    /\ \E i \in DOMAIN cursor.placed : cursor.placed[i].section = "skills"
    /\ \E i \in DOMAIN docx : docx[i].section = "skills"

\* the bullets of job j that the theme-based PDF exporter has drawn, each
\* by its place in the job's bullet list
ShownInPdf(j) ==
    {b.item : b \in {b \in Range(cursor.placed) : /\ b.section = "work"
                                                  /\ b.kind = "symbol"
                                                  /\ b.job = j}}

\* the bullets of job j among the paragraphs of the DOCX exporter
ShownInDocx(j) ==
    {p.item : p \in {p \in Range(docx) : /\ p.section = "work"
                                          /\ p.style = "bulletPoint"
                                          /\ p.job = j}}

\* C17: for every work entry the theme-based PDF exporter and the DOCX
\* exporter emit at most maxBulletsPerRole (5) bullets, the first ones of
\* the entry's bullet list, and drop the rest
C17_AtMostMaxBullets ==
    \A j \in 1..Len(resumeData.workExperience) :
        /\ Rendered => ShownInPdf(j) \subseteq 1..maxPerRole
        /\ docx # <<>> => ShownInDocx(j) \subseteq 1..maxPerRole

\* the last block that the exporter placed, and where its line ends
LastBlock == cursor.placed[Len(cursor.placed)]
ContentEnd == LastBlock.y + BlockHeight(LastBlock)

\* the resume has a section after the name section
HasSection ==
    \/ resumeData.summary # 0
    \/ Len(resumeData.workExperience) > 0
    \/ Len(resumeData.education) > 0
    \/ resumeData.skills # 0
    \/ Len(resumeData.certifications) > 0

\* C18: when the theme-based PDF exporter has rendered a resume, the
\* final cursor is on the page of the last block and less than a
\* sectionGap below the end of that block, whichever section is last
C18_NoTrailingGap ==
    Rendered /\ HasSection =>
        /\ cursor.page = LastBlock.page
        /\ cursor.y < ContentEnd + Tenths(designSystem.spacing.sectionGap)

\* C20: a second export of the same resume under the same theme, at a
\* later time and after the first, has the page count and the placed
\* blocks (page, x and y of each) of the first
C20_SameRender ==
    step = "done" /\ earlier # EmptyObject =>
        /\ cursor.page = earlier.pages
        /\ cursor.placed = earlier.placed

\* a second export of two pages or more is over, stamped with the later
\* time
C20_Witness ==
    /\ step = "done"
    /\ earlier # EmptyObject
    /\ earlier.pages >= 2
    /\ Len(earlier.placed) > 3
    /\ metadata.generatedDate = 1


\* C26: under each preset, from a line of the summary or of the skills to
\* the next line on the same page the exporter moves down by the font
\* size times the lineHeight of the design system resolved for the
\* preset (1.2 for classic, 1.4 for professional, 1.5 for modern).
C26_AdvanceByThemeLineHeight ==
    Rendered =>
        \A i \in 1..(Len(cursor.placed) - 1) :
            LET this == cursor.placed[i]
                next == cursor.placed[i + 1]
            IN  /\ this.kind = "line"
                /\ next.kind = "line"
                /\ next.section = this.section
                /\ next.page = this.page
                => next.y - this.y
                      = this.size * designSystem.spacing.lineHeight

\* C21: the visual QA check is advisory only: when exportResumeToPDF is
\* over, the PDF it returns is the one built before the check, whatever
\* the check reported and whether or not it threw, and a second export
\* returns the same PDF as the first whatever the two checks did
C21_QualityCheckAdvisory ==
    step = "done" =>
        /\ pdfBlob = [pages |-> cursor.page, placed |-> cursor.placed]
        /\ metadata.visualScore = 100
        /\ earlier # EmptyObject => pdfBlob = earlier.pdfBlob

\* two exports are over, the check threw in the first and reported
\* issues in the second
C21_Witness ==
    /\ step = "done"
    /\ earlier # EmptyObject
    /\ "threw" \in DOMAIN earlier.qaReport
    /\ "issues" \in DOMAIN qaReport
    /\ qaReport.issues > 0
    /\ pdfBlob # EmptyObject
    /\ Len(pdfBlob.placed) > 3

----
\* The greedy splitText of src/lib/exportPDF.ts (lines 57-86 and 430-458,
\* the same loop twice).  A text is a sequence of characters, measure gives
\* the width of each character, and doc.getTextWidth adds the widths up.

\* longest text
MaxTextLen == 5
\* widest maxWidth
MaxWidth == 4

Alphabet == {"a", "W", " "}

\* doc.getTextWidth(str) under the measure m
RECURSIVE getTextWidth(_, _)
getTextWidth(str, m) ==
    IF str = <<>> THEN 0 ELSE m[Head(str)] + getTextWidth(Tail(str), m)

\* str.split(" ")
RECURSIVE SplitAtSpaces(_)
SplitAtSpaces(str) ==
    IF \A i \in DOMAIN str : str[i] # " " THEN <<str>>
    ELSE LET at == Min({i \in DOMAIN str : str[i] = " "})
         IN  <<SubSeq(str, 1, at - 1)>>
             \o SplitAtSpaces(SubSeq(str, at + 1, Len(str)))

\* lines.join(" ")
RECURSIVE JoinWithSpaces(_)
JoinWithSpaces(strs) ==
    IF strs = <<>> THEN <<>>
    ELSE IF Len(strs) = 1 THEN strs[1]
    ELSE strs[1] \o <<" ">> \o JoinWithSpaces(Tail(strs))

\* splitTextFrom that loses the word that does not fit
RECURSIVE splitTextDropping(_, _, _, _, _)
splitTextDropping(words, i, currentLine, out, w) ==
    IF i > Len(words)
    THEN IF currentLine # <<>> THEN Append(out, currentLine) ELSE out
    ELSE LET testLine == IF currentLine # <<>>
                         THEN currentLine \o <<" ">> \o words[i]
                         ELSE words[i]
         IN  IF getTextWidth(testLine, measure) > w /\ currentLine # <<>>
             THEN splitTextDropping(words, i + 1, <<>>,
                                    Append(out, currentLine), w)
             ELSE splitTextDropping(words, i + 1, testLine, out, w)

\* lines 66-80: the loop from word i on, and the last push
RECURSIVE splitTextFrom(_, _, _, _, _)
splitTextFrom(words, i, currentLine, out, w) ==
    IF i > Len(words)
    THEN IF currentLine # <<>> THEN Append(out, currentLine) ELSE out
    ELSE LET testLine == IF currentLine # <<>>
                         THEN currentLine \o <<" ">> \o words[i]
                         ELSE words[i]
         IN  IF getTextWidth(testLine, measure) > w /\ currentLine # <<>>
             THEN splitTextFrom(words, i + 1, words[i],
                                Append(out, currentLine), w)
             ELSE splitTextFrom(words, i + 1, testLine, out, w)

\* splitText that returns the first line only
splitTextFirstLine(str, w) ==
    LET all == splitTextFrom(SplitAtSpaces(str), 1, <<>>, <<>>, w)
    IN  IF all = <<>> THEN <<>> ELSE <<all[1]>>

\* splitText that never starts a new line
splitTextOneLine(str, w) ==
    LET words == SplitAtSpaces(str)
    IN  IF JoinWithSpaces(words) # <<>> THEN <<JoinWithSpaces(words)>>
        ELSE <<>>

\* lines 57-86
splitText(str, w) == splitTextFrom(SplitAtSpaces(str), 1, <<>>, <<>>, w)

\* the width measures: narrow and wide letters, a narrow or wide space
Measures ==
    {[a |-> 1, W |-> 2, sp |-> 1], [a |-> 1, W |-> 3, sp |-> 2],
     [a |-> 2, W |-> 3, sp |-> 1]}

\* the measure as a function of the character
CharWidths(m) == [ch \in Alphabet |-> IF ch = "a" THEN m.a
                                      ELSE IF ch = "W" THEN m.W ELSE m.sp]

InitWrap ==
    /\ textToSplit \in SeqsUpTo(Alphabet, MaxTextLen)
    /\ maxWidth \in 1..MaxWidth
    /\ measure \in {CharWidths(m) : m \in Measures}
    /\ splitLines = <<>>
    /\ wrapPc = "call"
    /\ GeneratorIdle
    /\ ThemeIdle
    /\ ExportIdle
    /\ ServiceIdle

\* splitText(text, fontSize, maxWidth)
Wrap ==
    /\ wrapPc = "call"
    /\ splitLines' = splitText(textToSplit, maxWidth)
    /\ wrapPc' = "returned"
    /\ UNCHANGED <<textToSplit, maxWidth, measure>>
    /\ UNCHANGED <<generatorVars, themeVars, exportVars, serviceVars>>

NextWrap == Wrap

SpecWrap == InitWrap /\ [][NextWrap]_vars

\* the line is one word: it holds no space
SingleWord(line) == \A i \in DOMAIN line : line[i] # " "

\* the words of the text that are wider than maxWidth
WideWords ==
    {word \in Range(SplitAtSpaces(textToSplit)) :
        getTextWidth(word, measure) > maxWidth}

\* C15: every line that splitText returns measures at most maxWidth or is a
\* single word; a word wider than maxWidth is returned whole as a line of
\* its own, never split.
C15_LinesFitOrSingleWord ==
    wrapPc = "returned"
    => /\ \A i \in DOMAIN splitLines :
             \/ getTextWidth(splitLines[i], measure) <= maxWidth
             \/ SingleWord(splitLines[i])
       /\ \A word \in WideWords :
             \E i \in DOMAIN splitLines : splitLines[i] = word
       /\ \A i \in DOMAIN splitLines :
             SingleWord(splitLines[i])
             => splitLines[i] \in Range(SplitAtSpaces(textToSplit))

\* C15 witness: a text with a word wider than maxWidth between two other
\* words has been wrapped, and the wide word is a line of its own
C15_Witness ==
    /\ wrapPc = "returned"
    /\ Len(splitLines) = 3
    /\ getTextWidth(splitLines[2], measure) > maxWidth
    /\ splitLines[2] \in WideWords

\* C16: wrapping is idempotent: the lines returned by splitText, joined
\* with single spaces and wrapped again at the same maxWidth, come back as
\* the same sequence of lines.
C16_RewrapSame ==
    wrapPc = "returned"
    => splitText(JoinWithSpaces(splitLines), maxWidth) = splitLines

\* C16 witness: a text that wraps to more than one line, one of them made
\* of two words, has been wrapped
C16_Witness ==
    /\ wrapPc = "returned"
    /\ Len(splitLines) > 1
    /\ \E i \in DOMAIN splitLines : ~SingleWord(splitLines[i])
    /\ JoinWithSpaces(splitLines) # textToSplit

\* the words of the string that are not empty, in order
NonEmptyWords(str) == SelectSeq(SplitAtSpaces(str), LAMBDA word : word # <<>>)

\* the non-empty words of the lines, line after line
RECURSIVE WordsOfLines(_)
WordsOfLines(strs) ==
    IF strs = <<>> THEN <<>>
    ELSE NonEmptyWords(strs[1]) \o WordsOfLines(Tail(strs))

\* C25: splitText loses nothing: the non-empty words of the returned
\* lines, read in order, are the non-empty space-separated words of the
\* text in the same order, none dropped, repeated, moved or split.
C25_NoWordLost ==
    wrapPc = "returned"
    => WordsOfLines(splitLines) = NonEmptyWords(textToSplit)

\* C25 witness: a text of three words, or of two words with a doubled,
\* leading or trailing space, has been wrapped to two lines or more
C25_Witness ==
    /\ wrapPc = "returned"
    /\ Len(splitLines) >= 2
    /\ Len(NonEmptyWords(textToSplit)) >= 2
    /\ Len(SplitAtSpaces(textToSplit)) >= 3

----
\* The rate limiter, checkRateLimit of src/unnamed/part_012 (lib/rateLimit.ts):
\* rateLimitMap holds a record or nothing for each client identifier and
\* clock is Date.now() in milliseconds.

\* line 6
RATE_LIMIT_WINDOW == 60 * 1000
\* line 7
RATE_LIMIT_MAX_REQUESTS == 10

\* most advances of the clock
MaxTicks == 3

\* requests by their headers: x-forwarded-for as the list that split(",")
\* returns, and x-real-ip
Requests ==
    {[forwardedFor |-> <<"203.0.113.7", "10.0.0.1">>],
     [realIp |-> "203.0.113.7"],
     [forwardedFor |-> <<"">>, realIp |-> "203.0.113.7"],
     EmptyObject}

\* lines 20-23
identifierOf(request) ==
    IF "forwardedFor" \in DOMAIN request /\ request.forwardedFor[1] # ""
    THEN request.forwardedFor[1]
    ELSE IF "realIp" \in DOMAIN request /\ request.realIp # ""
         THEN request.realIp
         ELSE "unknown"

Identifiers == {identifierOf(request) : request \in Requests}

\* checkRateLimit that denies only above the maximum
checkRateLimitAbove(map, identifier, t) ==
    LET record == map[identifier]
        cleaned == IF record # EmptyObject /\ record.resetTime < t
                   THEN [map EXCEPT ![identifier] = EmptyObject]
                   ELSE map
        currentRecord == cleaned[identifier]
    IN  IF currentRecord = EmptyObject
        THEN [map |-> [cleaned EXCEPT ![identifier] =
                          [count |-> 1, resetTime |-> t + RATE_LIMIT_WINDOW]],
              allowed |-> TRUE,
              remaining |-> RATE_LIMIT_MAX_REQUESTS - 1,
              resetTime |-> t + RATE_LIMIT_WINDOW]
        ELSE IF currentRecord.count > RATE_LIMIT_MAX_REQUESTS
        THEN [map |-> cleaned, allowed |-> FALSE, remaining |-> 0,
              resetTime |-> currentRecord.resetTime]
        ELSE [map |-> [cleaned EXCEPT ![identifier].count = @ + 1],
              allowed |-> TRUE,
              remaining |-> RATE_LIMIT_MAX_REQUESTS
                            - (currentRecord.count + 1),
              resetTime |-> currentRecord.resetTime]

\* lines 14-65: the map after the call at time t and the result
checkRateLimit(map, identifier, t) ==
    LET record == map[identifier]
        cleaned == IF record # EmptyObject /\ record.resetTime < t
                   THEN [map EXCEPT ![identifier] = EmptyObject]
                   ELSE map
        currentRecord == cleaned[identifier]
    IN  IF currentRecord = EmptyObject
        THEN [map |-> [cleaned EXCEPT ![identifier] =
                          [count |-> 1, resetTime |-> t + RATE_LIMIT_WINDOW]],
              allowed |-> TRUE,
              remaining |-> RATE_LIMIT_MAX_REQUESTS - 1,
              resetTime |-> t + RATE_LIMIT_WINDOW]
        ELSE IF currentRecord.count >= RATE_LIMIT_MAX_REQUESTS
        THEN [map |-> cleaned, allowed |-> FALSE, remaining |-> 0,
              resetTime |-> currentRecord.resetTime]
        ELSE [map |-> [cleaned EXCEPT ![identifier].count = @ + 1],
              allowed |-> TRUE,
              remaining |-> RATE_LIMIT_MAX_REQUESTS
                            - (currentRecord.count + 1),
              resetTime |-> currentRecord.resetTime]

\* the windows of the identifier by the times of its calls alone: an
\* allowed call opens a window when there is none or when it comes
\* strictly after the end of the last one, and is counted in it otherwise
windowsAfter(identifier, t, allowed) ==
    LET window == windows[identifier]
    IN  IF ~allowed THEN windows
        ELSE IF window = EmptyObject \/ t > window.start + RATE_LIMIT_WINDOW
        THEN [windows EXCEPT ![identifier] = [start |-> t, allowed |-> 1]]
        ELSE [windows EXCEPT ![identifier].allowed = @ + 1]

\* the part of the state that the routes add
RoutesIdle ==
    /\ client = "" /\ observedRoute = "" /\ lastRequest = EmptyObject
    /\ served = 0

InitRate ==
    /\ rateLimitMap = [identifier \in Identifiers |-> EmptyObject]
    /\ clock = 0
    /\ lastCall = EmptyObject
    /\ windows = [identifier \in Identifiers |-> EmptyObject]
    /\ RoutesIdle
    /\ GeneratorIdle
    /\ ThemeIdle
    /\ ExportIdle
    /\ WrapIdle
    /\ QAIdle
    /\ PreviewIdle

\* lines 14-65: a request reaches checkRateLimit
CheckRateLimit ==
    \E request \in Requests :
        LET identifier == identifierOf(request)
            result == checkRateLimit(rateLimitMap, identifier, clock)
        IN  /\ rateLimitMap' = result.map
            /\ lastCall' = [identifier |-> identifier,
                            allowed |-> result.allowed,
                            remaining |-> result.remaining,
                            resetTime |-> result.resetTime,
                            before |-> rateLimitMap[identifier],
                            at |-> clock]
            /\ windows' = windowsAfter(identifier, clock, result.allowed)
            /\ UNCHANGED <<clock, client, observedRoute, lastRequest, served>>
            /\ UNCHANGED <<generatorVars, themeVars, exportVars, wrapVars, qaVars,
                           previewVars>>

\* the advances of the clock so far, each of a millisecond or of a window
Ticks == (clock \div RATE_LIMIT_WINDOW) + (clock % RATE_LIMIT_WINDOW)

\* time passes: a millisecond or a whole window
Tick ==
    /\ Ticks < MaxTicks
    /\ \E elapsed \in {1, RATE_LIMIT_WINDOW} : clock' = clock + elapsed
    /\ served' = 0
    /\ UNCHANGED <<rateLimitMap, lastCall, windows, client, observedRoute,
                   lastRequest>>
    /\ UNCHANGED <<generatorVars, themeVars, exportVars, wrapVars, qaVars,
                           previewVars>>

NextRate ==
    \/ CheckRateLimit
    \/ Tick

SpecRate == InitRate /\ [][NextRate]_vars

\* C23: for each client identifier, at most 10 calls are allowed in one
\* window, a window running from an allowed call that finds no live
\* record, which sets resetTime 60 s later, until the first call
\* strictly after that resetTime; a denied call falls inside the window
\* and leaves the stored count and resetTime as they were
C23_WindowAllowsAtMostTen ==
    /\ \A identifier \in Identifiers :
          windows[identifier] # EmptyObject =>
              /\ windows[identifier].allowed <= RATE_LIMIT_MAX_REQUESTS
              /\ rateLimitMap[identifier] # EmptyObject
              /\ rateLimitMap[identifier].resetTime
                    = windows[identifier].start + RATE_LIMIT_WINDOW
    /\ lastCall # EmptyObject /\ ~lastCall.allowed =>
          /\ rateLimitMap[lastCall.identifier] = lastCall.before
          /\ lastCall.at <= lastCall.before.resetTime

\* the eleventh call of a window was denied at the very end of the
\* window, after the other identifier opened a second window
C23_Witness ==
    /\ lastCall # EmptyObject
    /\ ~lastCall.allowed
    /\ lastCall.at = lastCall.before.resetTime
    /\ lastCall.before.count = RATE_LIMIT_MAX_REQUESTS
    /\ \E identifier \in Identifiers :
          /\ windows[identifier] # EmptyObject
          /\ windows[identifier].start > 0

----
\* The API routes, each the POST handler of its route.ts: a route that
\* consults checkRateLimit answers 429 when the call is denied and does
\* its work otherwise; the others do their work at once.  client is the
\* identifier whose requests are followed and served counts the requests
\* that observedRoute has served it since the clock last advanced.

\* app/api/<route>/route.ts
Routes ==
    {"parse", "analyze", "generate", "cover-letter", "interview-prep",
     "export-pdf", "export-docx"}

\* the routes whose handler begins with checkRateLimit(request)
LimitedRoutes == {"parse", "analyze", "generate"}

InitRoutes ==
    /\ rateLimitMap = [identifier \in Identifiers |-> EmptyObject]
    /\ clock = 0
    /\ lastCall = EmptyObject
    /\ windows = [identifier \in Identifiers |-> EmptyObject]
    /\ client \in Identifiers
    /\ observedRoute \in Routes
    /\ lastRequest = EmptyObject
    /\ served = 0
    /\ GeneratorIdle
    /\ ThemeIdle
    /\ ExportIdle
    /\ WrapIdle
    /\ QAIdle
    /\ PreviewIdle

\* served after the route has answered a request
servedAfter(route, handled) ==
    IF handled /\ route = observedRoute THEN served + 1 ELSE served

\* the handler of a route that consults the limiter first
LimitedHandler(route) ==
    /\ served <= RATE_LIMIT_MAX_REQUESTS
    /\ \E request \in Requests :
          /\ identifierOf(request) = client
          /\ LET result == checkRateLimit(rateLimitMap, client, clock)
             IN  /\ rateLimitMap' = result.map
                 /\ lastRequest' =
                       [route |-> route, consulted |-> TRUE,
                        status |-> IF result.allowed THEN "handled" ELSE "429"]
                 /\ served' = servedAfter(route, result.allowed)
    /\ UNCHANGED <<clock, lastCall, windows, client, observedRoute>>
    /\ UNCHANGED <<generatorVars, themeVars, exportVars, wrapVars, qaVars,
                           previewVars>>

\* the handler of a route that goes straight to its work
Handler(route) ==
    /\ served <= RATE_LIMIT_MAX_REQUESTS
    /\ \E request \in Requests : identifierOf(request) = client
    /\ lastRequest' = [route |-> route, consulted |-> FALSE,
                       status |-> "handled"]
    /\ served' = servedAfter(route, TRUE)
    /\ UNCHANGED <<rateLimitMap, clock, lastCall, windows, client,
                   observedRoute>>
    /\ UNCHANGED <<generatorVars, themeVars, exportVars, wrapVars, qaVars,
                           previewVars>>

ParseRoute == LimitedHandler("parse")
AnalyzeRoute == LimitedHandler("analyze")
GenerateRoute == LimitedHandler("generate")
CoverLetterRoute == Handler("cover-letter")
InterviewPrepRoute == Handler("interview-prep")
ExportPdfRoute == Handler("export-pdf")
ExportDocxRoute == Handler("export-docx")

NextRoutes ==
    \/ ParseRoute
    \/ AnalyzeRoute
    \/ GenerateRoute
    \/ CoverLetterRoute
    \/ InterviewPrepRoute
    \/ ExportPdfRoute
    \/ ExportDocxRoute
    \/ Tick

SpecRoutes == InitRoutes /\ [][NextRoutes]_vars

\* C22: every route consults the rate limiter before it does work for a
\* client, so that no route serves a client more than 10 requests in one
\* rate-limit window, and so not at one time of the clock either
C22_EveryRouteLimited ==
    /\ lastRequest # EmptyObject /\ lastRequest.status = "handled" =>
          lastRequest.consulted
    /\ served <= RATE_LIMIT_MAX_REQUESTS

\* the routes that consult the limiter keep to the maximum
LimitedRoutesKeepMaximum ==
    observedRoute \in LimitedRoutes => served <= RATE_LIMIT_MAX_REQUESTS

\* the routes that do not consult the limiter serve an eleventh request
UnlimitedRoutesExceedMaximum ==
    ~(/\ observedRoute \notin LimitedRoutes
      /\ served > RATE_LIMIT_MAX_REQUESTS)

----
\* The visual QA check, checkVisualConsistency of src/unnamed/part_010
\* (lib/qualityControl/visualQA.ts).  The check reads lengths, emptiness
\* and unusual characters of the texts of the resume, so a text is given
\* by its length, whether it is blank after trim() and whether it holds a
\* character outside the printable range; scores are kept as the code
\* computes them and overall in hundredths.

\* most jobs of a resume built from the job pool
MaxQAJobs == 2

Txt(length, blank, unusual) ==
    [length |-> length, blank |-> blank, unusual |-> unusual]

\* !text || text.trim() === ""
MissingText(text) == text.length = 0 \/ text.blank

\* the sum of a sequence of numbers
RECURSIVE SumOfNumbers(_)
SumOfNumbers(numbers) ==
    IF numbers = <<>> THEN 0
    ELSE Head(numbers) + SumOfNumbers(Tail(numbers))

\* Math.ceil(a / b) for a >= 0 and b > 0
Ceil(a, b) == (a + b - 1) \div b

\* lines 146-208: the number of issues of checkTypography
checkTypography(data) ==
    LET info == data.personalInfo
        perJob(exp) ==
            (IF MissingText(exp.title) THEN 1 ELSE 0)
            + (IF MissingText(exp.company) THEN 1 ELSE 0)
            + (IF Len(exp.bullets) = 0 THEN 1 ELSE 0)
            + Len(SelectSeq(exp.bullets, LAMBDA bullet : bullet.length > 200))
        perEdu(edu) ==
            (IF MissingText(edu.institution) THEN 1 ELSE 0)
            + (IF MissingText(edu.degree) THEN 1 ELSE 0)
    IN  (IF MissingText(info.name) THEN 1 ELSE 0)
        + (IF info.name.length > 100 THEN 1 ELSE 0)
        + (IF ~info.email /\ ~info.phone /\ ~info.location THEN 1 ELSE 0)
        + SumOfNumbers([i \in DOMAIN data.workExperience |->
                           perJob(data.workExperience[i])])
        + SumOfNumbers([i \in DOMAIN data.education |->
                           perEdu(data.education[i])])
        + (IF data.skills.count = 0 THEN 1 ELSE 0)

\* lines 318-393: currentHeight and usableHeight of estimatePageCount, in
\* tenths of a point
estimatedHeight(data) ==
    LET sizes == DESIGN_SYSTEM.typography.sizes
        spacing == DESIGN_SYSTEM.spacing
        line(size) == size * spacing.lineHeight
        perJob(exp) ==
            line(sizes.sectionHeader) + Tenths(spacing.headerToContent)
            + line(sizes.jobTitle) + line(sizes.body)
            + Tenths(spacing.bulletGap)
            + Len(exp.bullets) * (line(sizes.body) + Tenths(spacing.bulletGap))
            + Tenths(spacing.jobGap)
    IN  Tenths(spacing.pageMargin.top)
        + line(sizes.name) + Tenths(spacing.nameToContact)
        + line(sizes.contact) + Tenths(spacing.contactToSummary)
        + (IF data.summary > 0
           THEN line(sizes.sectionHeader) + Tenths(spacing.headerToContent)
                + Ceil(data.summary, 80) * line(sizes.body)
                + Tenths(spacing.sectionGap)
           ELSE 0)
        + SumOfNumbers([i \in DOMAIN data.workExperience |->
                           perJob(data.workExperience[i])])
        + Tenths(spacing.sectionGap)
        + Len(data.education) * (line(sizes.body) * 2 + Tenths(spacing.jobGap))
        + Tenths(spacing.sectionGap)
        + line(sizes.sectionHeader) + Tenths(spacing.headerToContent)
        + Ceil(data.skills.joined, 80) * line(sizes.body)

usableHeight ==
    Tenths(792 - DESIGN_SYSTEM.spacing.pageMargin.top
           - DESIGN_SYSTEM.spacing.pageMargin.bottom)

\* lines 318-393
estimatePageCount(data) == Ceil(estimatedHeight(data), usableHeight)

\* lines 213-241: the number of issues of checkSpacing
checkSpacing(data) ==
    (IF estimatePageCount(data) * 612 > DESIGN_SYSTEM.layout.maxWidth
     THEN 1 ELSE 0)
    + Len(SelectSeq(data.workExperience, LAMBDA exp : Len(exp.bullets) > 8))

\* lines 246-268: the number of issues of checkVisualElements
checkVisualElements(data) ==
    LET perJob(exp) ==
            (IF exp.title.unusual THEN 1 ELSE 0)
            + (IF exp.company.unusual THEN 1 ELSE 0)
            + Len(SelectSeq(exp.bullets, LAMBDA bullet : bullet.unusual))
    IN  (IF data.personalInfo.name.unusual THEN 1 ELSE 0)
        + SumOfNumbers([i \in DOMAIN data.workExperience |->
                           perJob(data.workExperience[i])])

\* lines 273-313: the number of issues of checkRequiredElements
checkRequiredElements(data) ==
    (IF data.personalInfo.name.length = 0 THEN 1 ELSE 0)
    + (IF ~data.personalInfo.email /\ ~data.personalInfo.phone THEN 1 ELSE 0)
    + (IF Len(data.workExperience) = 0 THEN 1 ELSE 0)
    + (IF Len(data.education) = 0 THEN 1 ELSE 0)
    + (IF data.skills.count = 0 THEN 1 ELSE 0)

Max(S) == CHOOSE x \in S : \A y \in S : x >= y

\* subScore without the floor at 0
subScoreUnfloored(issueCount) == 100 - issueCount * 10

\* lines 89-95, 99-105, 109-112: the score of an area with issues, and 100
\* without
subScore(issueCount) ==
    IF issueCount > 0 THEN Max({0, 100 - issueCount * 10}) ELSE 100

\* Math.round(sum / 9 * 100) / 100, in hundredths
overallOf(sum) == (200 * sum + 9) \div 18

\* lines 64-141
checkVisualConsistency(data) ==
    LET typographyIssues == checkTypography(data)
        spacingIssues == checkSpacing(data)
        visualIssues == checkVisualElements(data)
        requiredIssues == checkRequiredElements(data)
        typography == [fontConsistency |-> subScore(typographyIssues),
                       sizeConsistency |-> 100, weightConsistency |-> 100]
        spacing == [marginConsistency |-> subScore(spacingIssues),
                    sectionGaps |-> 100, bulletAlignment |-> 100]
        visual == [colorPalette |-> subScore(visualIssues),
                   lineAlignment |-> 100, whiteSpace |-> 100]
    IN  [typography |-> typography, spacing |-> spacing, visual |-> visual,
         overall |-> overallOf(typography.fontConsistency
                               + typography.sizeConsistency
                               + typography.weightConsistency
                               + spacing.marginConsistency
                               + spacing.sectionGaps
                               + spacing.bulletAlignment
                               + visual.colorPalette
                               + visual.lineAlignment
                               + visual.whiteSpace),
         issues |-> typographyIssues + spacingIssues + visualIssues
                    + requiredIssues + requiredIssues]

\* the texts: a plain one, an empty one, a blank one, a long one and one
\* with a control character
Plain == Txt(20, FALSE, FALSE)
Empty == Txt(0, FALSE, FALSE)
Blank == Txt(3, TRUE, FALSE)
Long == Txt(250, FALSE, FALSE)
Unusual == Txt(20, FALSE, TRUE)

QAJob(title, company, bullets) ==
    [title |-> title, company |-> company, bullets |-> bullets]

\* a job with many faults: no title, a company with a control character
\* and nine long bullets with control characters
WorstJob == QAJob(Empty, Unusual, [i \in 1..9 |-> Txt(250, FALSE, TRUE)])

QAJobPool ==
    {QAJob(Plain, Plain, <<Plain, Plain>>), QAJob(Blank, Plain, <<>>),
     QAJob(Plain, Unusual, <<Long, Unusual>>), WorstJob}

QAWorkLists ==
    SeqsUpTo(QAJobPool, MaxQAJobs) \cup {[i \in 1..10 |-> WorstJob]}

QAPersonalInfos ==
    [name : {Plain, Empty, Blank, Txt(120, FALSE, TRUE)},
     email : BOOLEAN, phone : {FALSE}, location : BOOLEAN]

QAEducations ==
    {<<>>, <<[institution |-> Plain, degree |-> Plain]>>,
     <<[institution |-> Empty, degree |-> Blank]>>}

QASkills == {[count |-> 0, joined |-> 0], [count |-> 12, joined |-> 130]}

QAResumes ==
    [personalInfo : QAPersonalInfos, summary : {0, 300, 9000},
     workExperience : QAWorkLists, education : QAEducations,
     skills : QASkills]

InitQA ==
    /\ qaData \in QAResumes
    /\ visualQAReport = EmptyObject
    /\ qaPc = "call"
    /\ GeneratorIdle
    /\ ThemeIdle
    /\ ExportIdle
    /\ WrapIdle
    /\ RateIdle
    /\ PreviewIdle

\* checkVisualConsistency(pdfBlob, resumeData)
CheckVisualConsistency ==
    /\ qaPc = "call"
    /\ visualQAReport' = checkVisualConsistency(qaData)
    /\ qaPc' = "returned"
    /\ UNCHANGED qaData
    /\ UNCHANGED <<generatorVars, themeVars, exportVars, wrapVars, rateVars,
                   previewVars>>

NextQA == CheckVisualConsistency

SpecQA == InitQA /\ [][NextQA]_vars

\* the nine sub-scores of the report
SubScores ==
    <<visualQAReport.typography.fontConsistency,
      visualQAReport.typography.sizeConsistency,
      visualQAReport.typography.weightConsistency,
      visualQAReport.spacing.marginConsistency,
      visualQAReport.spacing.sectionGaps,
      visualQAReport.spacing.bulletAlignment,
      visualQAReport.visual.colorPalette,
      visualQAReport.visual.lineAlignment,
      visualQAReport.visual.whiteSpace>>

\* the resume with its missing work experience and education sections
\* supplied by a faultless entry each
WithSections(data) ==
    [data EXCEPT
       !.workExperience =
           IF @ = <<>> THEN <<QAJob(Plain, Plain, <<Plain, Plain>>)>> ELSE @,
       !.education =
           IF @ = <<>> THEN <<[institution |-> Plain, degree |-> Plain]>>
           ELSE @]

\* the resume with its missing name, contact and skills supplied
WithFields(data) ==
    [data EXCEPT
       !.personalInfo.name = IF @.length = 0 THEN Plain ELSE @,
       !.personalInfo.email =
           IF ~@ /\ ~data.personalInfo.phone THEN TRUE ELSE @,
       !.skills = IF @.count = 0 THEN [count |-> 12, joined |-> 130] ELSE @]

\* the required elements that checkTypography reports as well: the name,
\* the skills, and the contact when the location is missing too
MissingTypographyField(data) ==
    \/ data.personalInfo.name.length = 0
    \/ data.skills.count = 0
    \/ /\ ~data.personalInfo.email
       /\ ~data.personalInfo.phone
       /\ ~data.personalInfo.location

C29_RequiredOnly ==
    /\ qaPc = "returned"
    /\ visualQAReport.overall = 10000
    /\ visualQAReport.issues > 0

----
\* The PDFPreview component of src/components/PDFPreview.tsx: its state,
\* the effect that generates the preview and the handlers that change what
\* the effect depends on.  previewUrl 0 is the null pdfUrl, qualityScore 0
\* the null score, and effectDeps holds the dependencies the effect last
\* ran with (none before the first run).

\* the user and the parent change the inputs at most this often
MaxInputChanges == 2
\* object URLs in circulation: URL.createObjectURL returns a URL that
\* differs from every URL still held
MaxUrls == 3

\* the resumeData prop: null, a resume that exportResumeToPDF renders, and
\* one on which it throws
PreviewResumes == {"null", "exports", "throws"}

\* line 101: the dependencies of the effect
Deps == <<previewData, selectedTheme, previewUrl>>

\* line 75: URL.createObjectURL(blob)
createObjectURL(held) == (held % MaxUrls) + 1

\* lines 26-39: the component is mounted with its props
InitPreview ==
    /\ previewData \in PreviewResumes
    /\ selectedTheme \in ThemePresets
    /\ previewUrl = 0
    /\ previewBlob = EmptyObject
    /\ loading = FALSE
    /\ previewError = "null"
    /\ qualityScore = 0
    /\ effectDeps = EmptyObject
    /\ inputChanges = 0
    /\ GeneratorIdle
    /\ ThemeIdle
    /\ ExportIdle
    /\ WrapIdle
    /\ RateIdle
    /\ QAIdle

\* lines 49-101: the effect runs after the first render and after every
\* render in which one of its dependencies has changed; generatePDF has no
\* await, so its state updates land in one render
RunEffect ==
    /\ effectDeps # Deps
    /\ effectDeps' = Deps
    /\ IF previewData = "null"
       THEN /\ previewBlob' = EmptyObject
            /\ previewUrl' = 0
            /\ UNCHANGED <<loading, previewError, qualityScore>>
       ELSE IF previewData = "exports"
       THEN \E report \in QAOutcomes :
               /\ previewBlob' = [theme |-> selectedTheme]
               /\ qualityScore' = IF "overall" \in DOMAIN report
                                  THEN report.overall ELSE qualityScore
               /\ previewUrl' = createObjectURL(previewUrl)
               /\ previewError' = "null"
               /\ loading' = FALSE
       ELSE /\ previewError' = "Failed to generate PDF"
            /\ previewBlob' = EmptyObject
            /\ previewUrl' = 0
            /\ qualityScore' = 0
            /\ loading' = FALSE
    /\ UNCHANGED <<previewData, selectedTheme, inputChanges>>
    /\ UNCHANGED <<generatorVars, themeVars, exportVars, wrapVars, rateVars,
                   qaVars>>

\* lines 26-29: the parent renders the component with another resumeData
ChangeResume ==
    /\ inputChanges < MaxInputChanges
    /\ \E data \in PreviewResumes \ {previewData} : previewData' = data
    /\ inputChanges' = inputChanges + 1
    /\ UNCHANGED <<selectedTheme, previewUrl, previewBlob, loading,
                   previewError, qualityScore, effectDeps>>
    /\ UNCHANGED <<generatorVars, themeVars, exportVars, wrapVars, rateVars,
                   qaVars>>

\* lines 230-250, 283-299: a button of the theme selector, which is on
\* screen when there is a resume and no error
SelectTheme ==
    /\ inputChanges < MaxInputChanges
    /\ previewData # "null"
    /\ ~loading
    /\ previewError = "null"
    /\ \E preset \in ThemePresets \ {selectedTheme} : selectedTheme' = preset
    /\ inputChanges' = inputChanges + 1
    /\ UNCHANGED <<previewData, previewUrl, previewBlob, loading,
                   previewError, qualityScore, effectDeps>>
    /\ UNCHANGED <<generatorVars, themeVars, exportVars, wrapVars, rateVars,
                   qaVars>>

\* lines 255-266: the Retry button of the error screen; an export that
\* throws again leaves only the cleared error
Retry ==
    /\ inputChanges < MaxInputChanges
    /\ previewData # "null"
    /\ ~loading
    /\ previewError # "null"
    /\ previewError' = "null"
    /\ IF previewData = "exports"
       THEN /\ previewBlob' = [theme |-> "professional"]
            /\ previewUrl' = createObjectURL(previewUrl)
       ELSE UNCHANGED <<previewBlob, previewUrl>>
    /\ inputChanges' = inputChanges + 1
    /\ UNCHANGED <<previewData, selectedTheme, loading, qualityScore,
                   effectDeps>>
    /\ UNCHANGED <<generatorVars, themeVars, exportVars, wrapVars, rateVars,
                   qaVars>>

NextPreview == RunEffect \/ ChangeResume \/ SelectTheme \/ Retry

SpecPreview == InitPreview /\ [][NextPreview]_vars

\* React runs a pending effect after the render that changed its
\* dependencies
SpecPreviewFair == SpecPreview /\ WF_vars(RunEffect)

\* no generation is pending: the effect has run with the present
\* dependencies
PreviewStable == effectDeps = Deps

\* C30: once resumeData and the selected theme stay fixed, the component
\* generates the PDF a bounded number of times and then stays in a state
\* in which no further generation is triggered.
C30_PreviewSettles == <>[]PreviewStable

\* a preview that shows no PDF, for a null resumeData or a failed export,
\* settles
PreviewWithoutPdfSettles == <>[](previewUrl = 0 => PreviewStable)

\* a generated preview is on screen and its generation has set the pdfUrl
\* that the effect depends on
PreviewGenerated ==
    /\ previewData = "exports"
    /\ previewUrl # 0
    /\ effectDeps # EmptyObject
    /\ effectDeps[1] = previewData
    /\ effectDeps[2] = selectedTheme
    /\ effectDeps[3] # previewUrl

====
